---- MODULE Spec2Model ----
(***************************************************************************)
(* Model of the kubernetes-mesos framework scheduler plugin                *)
(* (pkg/scheduler/plugin.go): Schedule, Bind, deleteOne and                *)
(* handleSchedulingError over the pod-task registries, the offer registry, *)
(* the backoff table and the delay queue, and of the slave-side executor   *)
(* (package executor): LaunchTask, KillTask, Shutdown and the launch       *)
(* watcher and lost-pod monitor goroutines over its task and pod maps;     *)
(* of the queuer's enqueue and yield loops with their mutex and condition  *)
(* variables and of deleter.Run; and of the mesos client's httpDo          *)
(* (pkg/cloud/mesos/client.go).                                            *)
(***************************************************************************)
EXTENDS Integers, FiniteSets, Sequences, TLC

\* ------------------------------------------------------------------ bounds
MaxTasks == 2
MaxOffers == 2
MaxFaults == 1

\* --------------------------------------------------------------- universes
Pods == {"p1", "p2"}
Slaves == {"s1", "s2"}
TaskIds == 1..MaxTasks
OfferIds == 1..MaxOffers
NoTask == 0
NoOffer == 0

HostName(s) == IF s = "s1" THEN "h1" ELSE "h2"
Hosts == {HostName(s) : s \in Slaves}

\* the slave an offer id comes from
SlaveOf(o) == IF o % 2 = 1 THEN "s1" ELSE "s2"

\* error values returned by the plugin's functions ("" is nil)
noSuchPodErr == "noSuchPod"
noSuchTaskErr == "noSuchTask"
noSuitableOffersErr == "noSuitableOffers"

VARIABLES
    podToTask,      \* k.podToTask: pod-key -> task-id (NoTask: no entry)
    tasks,          \* the task registries: task-id -> PodTask (state "none": no entry)
    nextTask,       \* next fresh task id handed out by createPodTask
    offers,         \* the offer registry: offer-id -> offer
    slaves,         \* k.slaves: the known slave ids
    podStore,       \* historical store: pod-key -> its pending event
    lock,           \* the scheduler RW lock: writer and readers
    plugin,         \* frame of the scheduling goroutine (Schedule / Bind / Error)
    deleter,        \* frame of the deleter goroutine (deleteOne)
    launchIssued,   \* driver log: LaunchTasks calls per offer id
    launchOk,       \* driver log: successful LaunchTasks calls per offer id
    faults,         \* failures the collaborators (REST, driver) may still inject
    backoff,        \* podBackoff.perPodBackoff: pod-key -> entry
    podQueue,       \* queuer.podQueue (delay FIFO): pod-key -> queued Pod
    listeners,      \* offer-arrival listeners registered in the offer registry
    lastDelay,      \* the delay of the pod-key's latest requeue, if that one was for
                    \* noSuitableOffers (0 otherwise)
    pendingEval,    \* offer registry: <<pod-key, offer-id>> of listeners still to be
                    \* run on an offer that was added
    listenerTask,   \* the task-id that the pod-key's listener closure captured
    storeObj,       \* historical store: pod-key -> the pod object last written
    queueObj,       \* queuer.podQueue: pod-key -> the pod object its entry carries
    yielder,        \* frame of a yield() call (NextPod)
    registered,     \* executor: k.registered
    kTasks,         \* executor: k.tasks, task-id -> pod-full-name (NoName: no entry)
    kPods,          \* executor: the keys of k.pods (the bound-pods map)
    updateChan,     \* executor: the updates pushed to k.updateChan, oldest first
    sentStatus,     \* executor: the driver.SendStatusUpdate calls, oldest first
    watchers,       \* executor: launch watcher goroutines still polling
    monitors,       \* executor: lost-pod monitor goroutines still polling
    kubelet,        \* container runtime: pod-full-name -> what GetPodInfo reports
    launches,       \* executor: LaunchTask deliveries so far
    ctx,            \* mesos client: the context's error ("": not done)
    ch,             \* httpDo: the result channel, capacity one
    caller,         \* httpDo: frame of the calling goroutine
    handler,        \* httpDo: frame of the goroutine that runs the request and f
    httpCalls,      \* httpDo calls so far
    queuerLock,     \* queuer: which loop holds q.lock ("free": nobody)
    loops,          \* queuer: position of the enqueue loop (deltaCond) and of yield
                    \*         (unscheduledCond)
    waiters,        \* queuer: the goroutine each loop starts to call Cond.Wait
    storeHead,      \* queuer: what podStore.Await would pop ("none": nothing)
    delayHead,      \* queuer: the head of podQueue ("delayed": deadline not reached)
    updates,        \* deleter: the entries in the updates channel, oldest first
    lastEntry,      \* deleter: the last entry received and what Run did with it
    queuerInputs    \* queuer: pod events and requeues so far

vars == <<podToTask, tasks, nextTask, offers, slaves, podStore, lock, plugin,
          deleter, launchIssued, launchOk, faults, backoff, podQueue,
          listeners, lastDelay, pendingEval, listenerTask,
          storeObj, queueObj, yielder,
          registered, kTasks, kPods, updateChan, sentStatus, watchers, monitors,
          kubelet, launches, ctx, ch, caller, handler, httpCalls,
          queuerLock, loops, waiters, storeHead, delayHead, updates, lastEntry,
          queuerInputs>>

\* what the queuer's enqueue and yield loops work on, beside podStore and podQueue
yieldVars == <<storeObj, queueObj, yielder>>

\* what the queuer never touches
registryVars == <<podToTask, tasks, nextTask, offers, slaves, lock, plugin, deleter,
                  launchIssued, launchOk, faults, backoff, listeners, lastDelay,
                  pendingEval, listenerTask>>

\* the slave-side executor and the container runtime it drives
execVars == <<registered, kTasks, kPods, updateChan, sentStatus, watchers, monitors,
              kubelet, launches>>

\* the mesos HTTP client
httpVars == <<ctx, ch, caller, handler, httpCalls>>

\* the queuer's mutex, condition variables and loops, and the deleter's channel
queuerVars == <<queuerLock, loops, waiters, storeHead, delayHead, updates, lastEntry,
                queuerInputs>>

\* everything the scheduler side owns
schedVars == <<registryVars, podStore, podQueue, yieldVars>>

\* ------------------------------------------------------- executor universes
\* LaunchTask deliveries the executor is given
MaxLaunches == 2
ExecTasks == {"t1", "t2"}
sourcename == "mesos"
\* TaskInfo.Data: a YAML bound pod; ok is FALSE for data yaml.Unmarshal rejects
Payloads == [name : {"web"}, namespace : {"ns1", "ns2"}, ok : BOOLEAN]
\* kubelet.GetPodFullName: name, namespace and the config source annotation
GetPodFullName(name, namespace, source) == <<name, namespace, source>>
FullNames == {GetPodFullName(d.name, d.namespace, sourcename) : d \in Payloads}
NoName == <<>>
TASK_RUNNING == "TASK_RUNNING"
TASK_FAILED == "TASK_FAILED"
TASK_KILLED == "TASK_KILLED"
TASK_LOST == "TASK_LOST"

\* ------------------------------------------------------ mesos client frames
\* httpDo calls made on one context
MaxCalls == 2
IdleCaller == [pc |-> "idle", branch |-> "", ret |-> ""]
NoHandler == [pc |-> "none", req |-> "none", res |-> "", err |-> "", ctxFirst |-> FALSE]

\* --------------------------------------------------------- queuer universes
\* capacity of the updates channel the deleter reads
MaxBacklog == 1

\* pod events and requeues that reach the queuer in one behaviour
MaxInputs == 2

\* the queuer's condition variables; deltaCond is waited on by the enqueue loop
\* of Run, unscheduledCond by yield, and each names its loop below
Conds == {"deltaCond", "unscheduledCond"}

\* the event kinds an entry of the updates channel can carry
EventKinds == {"ADD", "UPDATE", "DELETE", "POP"}

\* ------------------------------------------------------------------ PodTask
NilTask == [state |-> "none", podKey |-> "", offer |-> NoOffer, taskInfo |-> FALSE,
            launched |-> FALSE, deleted |-> FALSE, host |-> ""]

newPodTask(p) == [NilTask EXCEPT !.state = "pending", !.podKey = p]

hasAcceptedOffer(t) == t.taskInfo

GetOfferId(t) == t.offer

ClearTaskInfo(t) == [t EXCEPT !.offer = NoOffer, !.taskInfo = FALSE]

FillTaskInfo(t, o) == [t EXCEPT !.offer = o, !.taskInfo = TRUE]

\* getTask: the state tag of a task id
getTask(tid) == tasks[tid].state

\* ----------------------------------------------------------- offer registry
UnseenOffer == [st |-> "unseen", slave |-> "", acquired |-> FALSE]
GoneOffer == [st |-> "gone", slave |-> "", acquired |-> FALSE]

\* offers().Get(id): present in the registry
OfferGet(ofs, o) == o # NoOffer /\ ofs[o].st \in {"live", "expired"}

HasExpired(ofs, o) == ofs[o].st = "expired"

\* offers().Invalidate(id): the offer leaves the registry
Invalidate(ofs, o) == IF o = NoOffer THEN ofs ELSE [ofs EXCEPT ![o] = GoneOffer]

\* PerishableOffer.Acquire / Release
Acquire(ofs, o) == [ofs EXCEPT ![o].acquired = TRUE]

\* a Release that leaves the offer acquired
ReleaseKeepsAcquired(ofs, o) == ofs

Release(ofs, o) ==
    IF o = NoOffer \/ ofs[o].st \notin {"live", "expired"} THEN ofs
    ELSE [ofs EXCEPT ![o].acquired = FALSE]

\* the offers the matching function may hand out: live and not acquired
Eligible(ofs) == {o \in OfferIds : ofs[o].st = "live" /\ ~ofs[o].acquired}

\* ------------------------------------------------------------------- frames
IdleP == [op |-> "idle", pc |-> "idle", pod |-> "", host |-> "", err |-> "",
          tid |-> NoTask, off |-> NoOffer, matched |-> FALSE, created |-> FALSE,
          prepared |-> FALSE, posted |-> FALSE, issued |-> FALSE,
          invalidated |-> FALSE, stid |-> NoTask, soff |-> NoOffer,
          chained |-> "", collected |-> FALSE, requeued |-> FALSE,
          listened |-> FALSE, delay |-> 0, prev |-> 0]

IdleD == [pc |-> "idle", pod |-> "", err |-> "", tid |-> NoTask, kill |-> FALSE]

\* variant: the lock is handed out while it is held
LockFreeOrHeld == TRUE

LockFree == lock.w = "none" /\ lock.r = {}

\* a pod object as the queuer reads it: Status.Host, and whether meta.Accessor
\* understands it
NoPod == [host |-> "", ok |-> TRUE]
PodObjects == [host : {"", HostName("s1")}, ok : BOOLEAN]
IdleY == [pc |-> "idle", pod |-> "", obj |-> NoPod, polled |-> FALSE, skipped |-> FALSE]

Init ==
    /\ podToTask = [p \in Pods |-> NoTask]
    /\ tasks = [t \in TaskIds |-> NilTask]
    /\ nextTask = 1
    /\ offers = [o \in OfferIds |-> UnseenOffer]
    /\ slaves = {}
    /\ podStore = [p \in Pods |-> "none"]
    /\ lock = [w |-> "none", r |-> {}]
    /\ plugin = IdleP
    /\ deleter = IdleD
    /\ launchIssued = [o \in OfferIds |-> 0]
    /\ launchOk = [o \in OfferIds |-> 0]
    /\ faults = MaxFaults
    /\ backoff = [p \in Pods |-> [backoff |-> 0, stale |-> FALSE]]
    /\ podQueue = [p \in Pods |-> [queued |-> FALSE, delay |-> 0, notify |-> FALSE]]
    /\ listeners = {}
    /\ lastDelay = [p \in Pods |-> 0]
    /\ pendingEval = {}
    /\ listenerTask = [p \in Pods |-> NoTask]
    /\ storeObj = [p \in Pods |-> NoPod]
    /\ queueObj = [p \in Pods |-> NoPod]
    /\ yielder = IdleY
    /\ registered = FALSE
    /\ kTasks = [t \in ExecTasks |-> NoName]
    /\ kPods = {}
    /\ updateChan = <<>>
    /\ sentStatus = <<>>
    /\ watchers = [w \in ExecTasks \X FullNames |-> 0]
    /\ monitors = [w \in ExecTasks \X FullNames |-> 0]
    /\ kubelet = [n \in FullNames |-> "absent"]
    /\ launches = 0
    /\ ctx = ""
    /\ ch = <<>>
    /\ caller = IdleCaller
    /\ handler = NoHandler
    /\ httpCalls = 0
    /\ queuerLock = "free"
    /\ loops = [c \in Conds |-> "start"]
    /\ waiters = [c \in Conds |-> "none"]
    /\ storeHead = "none"
    /\ delayHead = "empty"
    /\ updates = <<>>
    /\ lastEntry = [kind |-> "none", did |-> "none"]
    /\ queuerInputs = 0

\* ------------------------------------------------- registry (k8smScheduler)
\* registerPodTask(task, nil): both maps are written together
registerPodTask(p2t, tks, tid, task) ==
    <<[p2t EXCEPT ![task.podKey] = tid], [tks EXCEPT ![tid] = task]>>

\* variant: only the pod-key entry is deleted
unregisterPodTaskHalf(p2t, tks, tid) ==
    <<[p2t EXCEPT ![tks[tid].podKey] = NoTask], tks>>

\* unregisterPodTask(task): both entries are deleted together
unregisterPodTask(p2t, tks, tid) ==
    <<[p2t EXCEPT ![tks[tid].podKey] = NoTask], [tks EXCEPT ![tid] = NilTask]>>

\* ------------------------------------------------------- historical store
\* podStore.Poll(key, event): true iff the key's pending event is that event
Poll(store, p, ev) == store[p] = ev

\* a matching Poll consumes the event
Polled(store, p, ev) == IF store[p] = ev THEN [store EXCEPT ![p] = "none"] ELSE store

\* the reflector records the DELETE of a pod
StoreDelete(p) ==
    /\ podStore[p] # "DELETE"
    /\ podStore' = [podStore EXCEPT ![p] = "DELETE"]
    /\ UNCHANGED <<podToTask, tasks, nextTask, offers, slaves, lock, plugin, deleter,
                   launchIssued, launchOk, faults, backoff, podQueue, listeners,
                   lastDelay,
                   pendingEval, listenerTask,
                   yieldVars,
                   execVars,
                   httpVars,
                   queuerVars>>

\* queuer.dequeue(id): podQueue.Delete(id)
dequeue(q, p) == [q EXCEPT ![p] = [queued |-> FALSE, delay |-> 0, notify |-> FALSE]]

\* queuer.yield(): podQueue.Await pops the pod that NextPod hands to Schedule
yield(q, p) == [q EXCEPT ![p] = [queued |-> FALSE, delay |-> 0, notify |-> FALSE]]

\* ------------------------------------------------- kubeScheduler.Schedule
\* NextPod has yielded the pod; Schedule takes the scheduler lock (k.api.Lock())
ScheduleLock(p) ==
    /\ plugin.op = "idle"
    /\ LockFree
    /\ podToTask[p] = NoTask => nextTask <= MaxTasks
    /\ podQueue' = yield(podQueue, p)
    /\ lock' = [lock EXCEPT !.w = "plugin"]
    /\ plugin' = [IdleP EXCEPT !.op = "Schedule", !.pc = "body", !.pod = p]
    /\ UNCHANGED <<podToTask, tasks, nextTask, offers, slaves, podStore, deleter,
                   launchIssued, launchOk, faults, backoff, listeners,
                   lastDelay,
                   pendingEval, listenerTask,
                   yieldVars,
                   execVars,
                   httpVars,
                   queuerVars>>

\* variant: every slave id is taken for known
slaveForAnyone(sl, id) == TRUE

\* slaveFor(id): is the slave in the slave index?
slaveFor(sl, id) == id \in sl

\* doSchedule(task, nil): run the matching function, then look the slave up
doSchedule(tid, tks, created) ==
    \/ /\ offers' = offers
       /\ tasks' = tks
       /\ plugin' = [plugin EXCEPT !.pc = "ret", !.err = noSuitableOffersErr,
                                   !.matched = TRUE, !.created = created, !.tid = tid]
    \/ \E o \in Eligible(offers) :
          LET acq == Acquire(offers, o) IN
          IF ~slaveFor(slaves, offers[o].slave)
          THEN /\ offers' = Invalidate(Release(acq, o), o)
               /\ tasks' = [tks EXCEPT ![tid] = ClearTaskInfo(@)]
               /\ plugin' = [plugin EXCEPT !.pc = "ret", !.err = "slaveDisappeared",
                                           !.matched = TRUE, !.created = created,
                                           !.tid = tid, !.off = o]
          ELSE /\ offers' = acq
               /\ tasks' = [tks EXCEPT ![tid] = FillTaskInfo(@, o)]
               /\ plugin' = [plugin EXCEPT !.pc = "ret",
                                           !.host = HostName(offers[o].slave),
                                           !.matched = TRUE, !.created = created,
                                           !.tid = tid, !.off = o]

\* variant: the DELETE check is left out
AbortDeletedNever(store, p) == FALSE

\* Schedule on an unmapped pod: has the pod been deleted since it was yielded?
AbortDeleted(store, p) == Poll(store, p, "DELETE")

\* variant: the launched flag is not looked at
ScheduleVerdictIgnoresLaunched(state, launched) ==
    IF state = "pending" THEN "" ELSE "notPending"

\* the switch of Schedule on an existing task: may offer matching run on it?
ScheduleVerdict(state, launched) ==
    IF state = "pending"
    THEN IF launched THEN "alreadyLaunched" ELSE ""
    ELSE "notPending"

\* the body of Schedule, under the lock
ScheduleBody ==
    /\ plugin.op = "Schedule" /\ plugin.pc = "body"
    /\ LET p == plugin.pod
           tid == podToTask[p]
       IN  IF tid = NoTask
           THEN IF AbortDeleted(podStore, p)
                THEN /\ podStore' = Polled(podStore, p, "DELETE")
                     /\ plugin' = [plugin EXCEPT !.pc = "ret", !.err = noSuchPodErr]
                     /\ UNCHANGED <<podToTask, tasks, nextTask, offers, faults>>
                ELSE \/ /\ faults > 0
                        /\ faults' = faults - 1
                        /\ plugin' = [plugin EXCEPT !.pc = "ret", !.err = "createFailed"]
                        /\ UNCHANGED <<podToTask, tasks, nextTask, offers, podStore>>
                     \/ LET reg == registerPodTask(podToTask, tasks, nextTask,
                                                   newPodTask(p))
                        IN  /\ podToTask' = reg[1]
                            /\ nextTask' = nextTask + 1
                            /\ doSchedule(nextTask, reg[2], TRUE)
                            /\ UNCHANGED <<podStore, faults>>
           ELSE LET verdict == ScheduleVerdict(getTask(tid), tasks[tid].launched)
                IN  IF verdict = ""
                    THEN /\ doSchedule(tid, tasks, FALSE)
                         /\ UNCHANGED <<podToTask, nextTask, podStore, faults>>
                    ELSE /\ plugin' = [plugin EXCEPT !.pc = "ret", !.err = verdict,
                                                     !.tid = tid]
                         /\ UNCHANGED <<podToTask, tasks, nextTask, offers, podStore,
                                        faults>>
    /\ UNCHANGED <<slaves, lock, deleter, launchIssued, launchOk, backoff,
                   podQueue, listeners,
                   lastDelay,
                   pendingEval, listenerTask,
                   yieldVars,
                   execVars,
                   httpVars,
                   queuerVars>>

\* Schedule returns a host (the deferred Unlock): the loop goes on to call Bind
ScheduleReturn ==
    /\ plugin.op = "Schedule" /\ plugin.pc = "ret" /\ plugin.err = ""
    /\ lock' = [lock EXCEPT !.w = "none"]
    /\ plugin' = [IdleP EXCEPT !.op = "Bind", !.pc = "call", !.pod = plugin.pod,
                               !.host = plugin.host, !.stid = plugin.tid,
                               !.soff = plugin.off]
    /\ UNCHANGED <<podToTask, tasks, nextTask, offers, slaves, podStore, deleter,
                   launchIssued, launchOk, faults, backoff, podQueue, listeners,
                   lastDelay,
                   pendingEval, listenerTask,
                   yieldVars,
                   execVars,
                   httpVars,
                   queuerVars>>

\* Schedule returns an error (the deferred Unlock): the loop calls Error(pod, err)
ScheduleReturnError ==
    /\ plugin.op = "Schedule" /\ plugin.pc = "ret" /\ plugin.err # ""
    /\ lock' = [lock EXCEPT !.w = "none"]
    /\ plugin' = [IdleP EXCEPT !.op = "Error", !.pc = "enter", !.pod = plugin.pod,
                               !.err = plugin.err, !.chained = "Schedule"]
    /\ UNCHANGED <<podToTask, tasks, nextTask, offers, slaves, podStore, deleter,
                   launchIssued, launchOk, faults, backoff, podQueue, listeners,
                   lastDelay,
                   pendingEval, listenerTask,
                   yieldVars,
                   execVars,
                   httpVars,
                   queuerVars>>

\* ------------------------------------------------------------ binder.Bind
\* Bind takes the scheduler lock and resolves pod-key -> task-id -> task
BindLock ==
    /\ plugin.op = "Bind" /\ plugin.pc = "call"
    /\ LockFree
    /\ lock' = [lock EXCEPT !.w = "plugin"]
    /\ LET tid == podToTask[plugin.pod]
       IN  IF tid # NoTask /\ getTask(tid) = "pending"
           THEN plugin' = [plugin EXCEPT !.pc = "bind", !.tid = tid]
           ELSE plugin' = [plugin EXCEPT !.pc = "ret", !.tid = tid,
                                         !.err = noSuchPodErr]
    /\ UNCHANGED <<podToTask, tasks, nextTask, offers, slaves, podStore, deleter,
                   launchIssued, launchOk, faults, backoff, podQueue, listeners,
                   lastDelay,
                   pendingEval, listenerTask,
                   yieldVars,
                   execVars,
                   httpVars,
                   queuerVars>>

\* variant: the re-check forgets HasExpired
OfferStillLiveNoExpiry(ofs, o) == OfferGet(ofs, o)

\* bind's re-check: is the task's offer still in the registry and not expired?
OfferStillLive(ofs, o) == OfferGet(ofs, o) /\ ~HasExpired(ofs, o)

\* bind: the sanity check and the re-check of the offer
BindCheck ==
    /\ plugin.op = "Bind" /\ plugin.pc = "bind"
    /\ LET t == tasks[plugin.tid]
           o == GetOfferId(t)
       IN  IF ~hasAcceptedOffer(t)
           THEN /\ plugin' = [plugin EXCEPT !.pc = "ret", !.err = "notAccepted"]
                /\ UNCHANGED <<tasks, offers>>
           ELSE IF ~OfferStillLive(offers, o)
           THEN /\ offers' = Release(offers, o)
                /\ tasks' = [tasks EXCEPT ![plugin.tid] = ClearTaskInfo(@)]
                /\ plugin' = [plugin EXCEPT !.pc = "ret", !.err = "expiredOffer",
                                            !.off = o]
           ELSE /\ plugin' = [plugin EXCEPT !.pc = "prepare", !.off = o]
                /\ UNCHANGED <<tasks, offers>>
    /\ UNCHANGED <<podToTask, nextTask, slaves, podStore, lock, deleter, launchIssued,
                   launchOk, faults, backoff, podQueue, listeners,
                   lastDelay,
                   pendingEval, listenerTask,
                   yieldVars,
                   execVars,
                   httpVars,
                   queuerVars>>

\* prepareTaskForLaunch: fetch the pod and the services, marshal the bound pod
BindPrepare ==
    /\ plugin.op = "Bind" /\ plugin.pc = "prepare"
    /\ \/ /\ plugin' = [plugin EXCEPT !.pc = "post", !.prepared = TRUE]
          /\ UNCHANGED faults
       \/ /\ faults > 0
          /\ faults' = faults - 1
          /\ plugin' = [plugin EXCEPT !.pc = "fail"]
    /\ UNCHANGED <<podToTask, tasks, nextTask, offers, slaves, podStore, lock, deleter,
                   launchIssued, launchOk, backoff, podQueue, listeners,
                   lastDelay,
                   pendingEval, listenerTask,
                   yieldVars,
                   execVars,
                   httpVars,
                   queuerVars>>

\* variant: the POST's error is ignored
BindPostIgnoresError ==
    /\ plugin.op = "Bind" /\ plugin.pc = "post"
    /\ \/ /\ plugin' = [plugin EXCEPT !.pc = "launch", !.posted = TRUE]
          /\ UNCHANGED faults
       \/ /\ faults > 0
          /\ faults' = faults - 1
          /\ plugin' = [plugin EXCEPT !.pc = "launch"]
    /\ UNCHANGED <<podToTask, tasks, nextTask, offers, slaves, podStore, lock, deleter,
                   launchIssued, launchOk, backoff, podQueue, listeners,
                   lastDelay,
                   pendingEval, listenerTask,
                   yieldVars,
                   execVars,
                   httpVars,
                   queuerVars>>

\* the binding POST to the control plane
BindPost ==
    /\ plugin.op = "Bind" /\ plugin.pc = "post"
    /\ \/ /\ plugin' = [plugin EXCEPT !.pc = "launch", !.posted = TRUE]
          /\ UNCHANGED faults
       \/ /\ faults > 0
          /\ faults' = faults - 1
          /\ plugin' = [plugin EXCEPT !.pc = "fail"]
    /\ UNCHANGED <<podToTask, tasks, nextTask, offers, slaves, podStore, lock, deleter,
                   launchIssued, launchOk, backoff, podQueue, listeners,
                   lastDelay,
                   pendingEval, listenerTask,
                   yieldVars,
                   execVars,
                   httpVars,
                   queuerVars>>

\* launchTask: driver.LaunchTasks(task.Offer.Details().Id, [task.TaskInfo])
BindLaunch ==
    /\ plugin.op = "Bind" /\ plugin.pc = "launch"
    /\ LET o == tasks[plugin.tid].offer
       IN  /\ launchIssued' = [launchIssued EXCEPT ![o] = @ + 1]
           /\ \/ /\ launchOk' = [launchOk EXCEPT ![o] = @ + 1]
                 /\ plugin' = [plugin EXCEPT !.pc = "invalidate", !.issued = TRUE]
                 /\ UNCHANGED faults
              \/ /\ faults > 0
                 /\ faults' = faults - 1
                 /\ plugin' = [plugin EXCEPT !.pc = "fail", !.issued = TRUE]
                 /\ UNCHANGED launchOk
    /\ UNCHANGED <<podToTask, tasks, nextTask, offers, slaves, podStore, lock, deleter,
                   backoff, podQueue, listeners,
                   lastDelay,
                   pendingEval, listenerTask,
                   yieldVars,
                   execVars,
                   httpVars,
                   queuerVars>>

\* variant: the consumed offer is not invalidated
BindInvalidateSkipped ==
    /\ plugin.op = "Bind" /\ plugin.pc = "invalidate"
    /\ plugin' = [plugin EXCEPT !.pc = "stamp", !.invalidated = TRUE]
    /\ UNCHANGED <<podToTask, tasks, nextTask, offers, slaves, podStore, lock, deleter,
                   launchIssued, launchOk, faults, backoff, podQueue, listeners,
                   lastDelay,
                   pendingEval, listenerTask,
                   yieldVars,
                   execVars,
                   httpVars,
                   queuerVars>>

\* after a successful launch: offers().Invalidate(offerId)
BindInvalidate ==
    /\ plugin.op = "Bind" /\ plugin.pc = "invalidate"
    /\ offers' = Invalidate(offers, plugin.off)
    /\ plugin' = [plugin EXCEPT !.pc = "stamp", !.invalidated = TRUE]
    /\ UNCHANGED <<podToTask, tasks, nextTask, slaves, podStore, lock, deleter,
                   launchIssued, launchOk, faults, backoff, podQueue, listeners,
                   lastDelay,
                   pendingEval, listenerTask,
                   yieldVars,
                   execVars,
                   httpVars,
                   queuerVars>>

\* then task.Pod.Status.Host = binding.Host; task.launched = true; return nil
BindStamp ==
    /\ plugin.op = "Bind" /\ plugin.pc = "stamp"
    /\ tasks' = [tasks EXCEPT ![plugin.tid].host = plugin.host,
                              ![plugin.tid].launched = TRUE]
    /\ plugin' = [plugin EXCEPT !.pc = "ret"]
    /\ UNCHANGED <<podToTask, nextTask, offers, slaves, podStore, lock, deleter,
                   launchIssued, launchOk, faults, backoff, podQueue, listeners,
                   lastDelay,
                   pendingEval, listenerTask,
                   yieldVars,
                   execVars,
                   httpVars,
                   queuerVars>>

\* variant: the error is returned with the offer still attached
BindFailKeepsOffer ==
    /\ plugin.op = "Bind" /\ plugin.pc = "fail"
    /\ plugin' = [plugin EXCEPT !.pc = "ret", !.err = "launchFailed"]
    /\ UNCHANGED <<podToTask, tasks, nextTask, offers, slaves, podStore, lock, deleter,
                   launchIssued, launchOk, faults, backoff, podQueue, listeners,
                   lastDelay,
                   pendingEval, listenerTask,
                   yieldVars,
                   execVars,
                   httpVars,
                   queuerVars>>

\* any failed step: task.Offer.Release(); task.ClearTaskInfo(); return the error
BindFail ==
    /\ plugin.op = "Bind" /\ plugin.pc = "fail"
    /\ offers' = Release(offers, tasks[plugin.tid].offer)
    /\ tasks' = [tasks EXCEPT ![plugin.tid] = ClearTaskInfo(@)]
    /\ plugin' = [plugin EXCEPT !.pc = "ret", !.err = "launchFailed"]
    /\ UNCHANGED <<podToTask, nextTask, slaves, podStore, lock, deleter, launchIssued,
                   launchOk, faults, backoff, podQueue, listeners,
                   lastDelay,
                   pendingEval, listenerTask,
                   yieldVars,
                   execVars,
                   httpVars,
                   queuerVars>>

\* Bind returns nil (the deferred Unlock): the loop goes back to NextPod
BindReturn ==
    /\ plugin.op = "Bind" /\ plugin.pc = "ret" /\ plugin.err = ""
    /\ lock' = [lock EXCEPT !.w = "none"]
    /\ plugin' = IdleP
    /\ UNCHANGED <<podToTask, tasks, nextTask, offers, slaves, podStore, deleter,
                   launchIssued, launchOk, faults, backoff, podQueue, listeners,
                   lastDelay,
                   pendingEval, listenerTask,
                   yieldVars,
                   execVars,
                   httpVars,
                   queuerVars>>

\* Bind returns an error (the deferred Unlock): the loop calls Error(pod, err)
BindReturnError ==
    /\ plugin.op = "Bind" /\ plugin.pc = "ret" /\ plugin.err # ""
    /\ lock' = [lock EXCEPT !.w = "none"]
    /\ plugin' = [IdleP EXCEPT !.op = "Error", !.pc = "enter", !.pod = plugin.pod,
                               !.err = plugin.err, !.chained = "Bind"]
    /\ UNCHANGED <<podToTask, tasks, nextTask, offers, slaves, podStore, deleter,
                   launchIssued, launchOk, faults, backoff, podQueue, listeners,
                   lastDelay,
                   pendingEval, listenerTask,
                   yieldVars,
                   execVars,
                   httpVars,
                   queuerVars>>

\* ------------------------------------------------------------- podBackoff
InitialBackoff == 1
MaxDuration == 60
NoEntry == [backoff |-> 0, stale |-> FALSE]

\* gc(): entries not updated for longer than the horizon are deleted
gc(bk) == [p \in Pods |-> IF bk[p].stale THEN NoEntry ELSE bk[p]]

\* the entry getBackoff works on: the pod's own, or a fresh one at the initial duration
getEntry(bk, p) == IF bk[p].backoff = 0 THEN InitialBackoff ELSE bk[p].backoff

\* the duration getBackoff(podKey) returns
getBackoff(bk, p) == getEntry(bk, p)

\* the table after getBackoff(podKey): the entry is doubled up to the cap, and fresh
doubled(bk, p) ==
    [bk EXCEPT ![p] = [backoff |-> IF 2 * getEntry(bk, p) > MaxDuration
                                   THEN MaxDuration ELSE 2 * getEntry(bk, p),
                       stale |-> FALSE]]

\* more time than the gc horizon passes: every entry is now old enough to collect
TimePasses ==
    /\ \E p \in Pods : backoff[p].backoff # 0 /\ ~backoff[p].stale
    /\ backoff' = [p \in Pods |-> IF backoff[p].backoff = 0 THEN NoEntry
                                  ELSE [backoff[p] EXCEPT !.stale = TRUE]]
    /\ UNCHANGED <<podToTask, tasks, nextTask, offers, slaves, podStore, lock, plugin,
                   deleter, launchIssued, launchOk, faults, podQueue, listeners,
                   lastDelay,
                   pendingEval, listenerTask,
                   yieldVars,
                   execVars,
                   httpVars,
                   queuerVars>>

\* ------------------------------------------ errorHandler.handleSchedulingError
\* noSuchPod is dropped at once; otherwise backoff.gc(), then the read lock is taken
ErrorEnter ==
    /\ plugin.op = "Error" /\ plugin.pc = "enter"
    /\ IF plugin.err = noSuchPodErr
       THEN /\ plugin' = [plugin EXCEPT !.pc = "ret"]
            /\ UNCHANGED <<backoff, lock>>
       ELSE /\ lock.w = "none"
            /\ backoff' = gc(backoff)
            /\ lock' = [lock EXCEPT !.r = @ \cup {"plugin"}]
            /\ plugin' = [plugin EXCEPT !.pc = "body",
                                        !.collected = backoff[plugin.pod].stale]
    /\ UNCHANGED <<podToTask, tasks, nextTask, offers, slaves, podStore, deleter,
                   launchIssued, launchOk, faults, podQueue, listeners, lastDelay,
                   pendingEval, listenerTask,
                   yieldVars,
                   execVars,
                   httpVars,
                   queuerVars>>

\* variant: the launched flag is not looked at
MayRequeueLaunched(tid) ==
    /\ tid # NoTask
    /\ getTask(tid) = "pending"

\* does the handler requeue a pod whose key resolves to tid?
MayRequeue(tid) ==
    /\ tid # NoTask
    /\ getTask(tid) = "pending"
    /\ ~tasks[tid].launched

\* offers().Listen(podKey, f): the pod-key's listener is replaced, and with it
\* go the notifications that were pending for the old one
Listen(pend, p) == {e \in pend : e[1] # p}

\* task.AcceptOffer(offer): the offer is there and its resources fit the pod
AcceptOffer(t, o) == o # NoOffer

\* variant: the predicate does not look at the launched flag
listenerAcceptsLaunched(tid, o) ==
    /\ getTask(tid) = "pending"
    /\ AcceptOffer(tasks[tid], o)

\* the listener's predicate, run under the read lock on the captured task-id
listenerAccepts(tid, o) ==
    /\ getTask(tid) = "pending"
    /\ ~tasks[tid].launched
    /\ AcceptOffer(tasks[tid], o)

\* the break channel signals: the queued Pod that carries it is due at once
breakOut(q, p) ==
    IF q[p].queued /\ q[p].notify THEN [q EXCEPT ![p].delay = 0] ELSE q

\* the offer registry runs the pod-key's listener on an offer that was added; a
\* listener whose predicate holds is fired once and removed
ListenerEval(p, o) ==
    /\ <<p, o>> \in pendingEval
    /\ lock.w = "none"
    /\ IF p \in listeners /\ listenerAccepts(listenerTask[p], o)
       THEN /\ listeners' = listeners \ {p}
            /\ pendingEval' = {e \in pendingEval : e[1] # p}
            /\ podQueue' = breakOut(podQueue, p)
       ELSE /\ pendingEval' = pendingEval \ {<<p, o>>}
            /\ UNCHANGED <<listeners, podQueue>>
    /\ UNCHANGED <<podToTask, tasks, nextTask, offers, slaves, podStore, lock, plugin,
                   deleter, launchIssued, launchOk, faults, backoff, lastDelay,
                   listenerTask,
                   yieldVars,
                   execVars,
                   httpVars,
                   queuerVars>>

\* variant: a listener for every error
WantsListenerAlways(e) == TRUE

\* does the handler register an offer listener for this error?
WantsListener(e) == e = noSuitableOffersErr

\* variant: the delay is the entry's next, doubled, duration, not capped
requeueDelayUncapped(bk, p) == 2 * getBackoff(bk, p)

\* delay := k.backoff.getBackoff(podKey)
requeueDelay(bk, p) == getBackoff(bk, p)

\* queuer.requeue(pod): podQueue.Add(pod, KeepExisting)
requeue(q, p, delay, notify) ==
    IF q[p].queued THEN q
    ELSE [q EXCEPT ![p] = [queued |-> TRUE, delay |-> delay, notify |-> notify]]

\* the handler's body, under the read lock
ErrorBody ==
    /\ plugin.op = "Error" /\ plugin.pc = "body"
    /\ LET p == plugin.pod
           tid == podToTask[p]
       IN  IF MayRequeue(tid)
           THEN LET listen == WantsListener(plugin.err)
                    delay == requeueDelay(backoff, p)
                IN  /\ listeners' = IF listen THEN listeners \cup {p} ELSE listeners
                    /\ listenerTask' = IF listen THEN [listenerTask EXCEPT ![p] = tid]
                                       ELSE listenerTask
                    /\ pendingEval' = IF listen THEN Listen(pendingEval, p)
                                      ELSE pendingEval
                    /\ backoff' = doubled(backoff, p)
                    /\ podQueue' = requeue(podQueue, p, delay, listen)
                    /\ lastDelay' = [lastDelay EXCEPT
                                      ![p] = IF plugin.err = noSuitableOffersErr
                                             THEN delay ELSE 0]
                    /\ plugin' = [plugin EXCEPT !.pc = "ret", !.tid = tid,
                                                !.requeued = TRUE, !.listened = listen,
                                                !.delay = delay, !.prev = lastDelay[p]]
           ELSE /\ plugin' = [plugin EXCEPT !.pc = "ret", !.tid = tid]
                /\ UNCHANGED <<listeners, listenerTask, pendingEval, backoff, podQueue,
                               lastDelay>>
    /\ UNCHANGED <<podToTask, tasks, nextTask, offers, slaves, podStore, lock, deleter,
                   launchIssued, launchOk, faults,
                   yieldVars,
                   execVars,
                   httpVars,
                   queuerVars>>

\* the handler returns: the deferred RUnlock, if the read lock was taken
ErrorReturn ==
    /\ plugin.op = "Error" /\ plugin.pc = "ret"
    /\ lock' = [lock EXCEPT !.r = @ \ {"plugin"}]
    /\ plugin' = IdleP
    /\ UNCHANGED <<podToTask, tasks, nextTask, offers, slaves, podStore, deleter,
                   launchIssued, launchOk, faults, backoff, podQueue, listeners,
                   lastDelay,
                   pendingEval, listenerTask,
                   yieldVars,
                   execVars,
                   httpVars,
                   queuerVars>>

\* ------------------------------------------------------- deleter.deleteOne
\* deleteOne takes the scheduler lock
DeleteLock(p) ==
    /\ deleter.pc = "idle"
    /\ LockFree
    /\ lock' = [lock EXCEPT !.w = "deleter"]
    /\ deleter' = [IdleD EXCEPT !.pc = "body", !.pod = p]
    /\ UNCHANGED <<podToTask, tasks, nextTask, offers, slaves, podStore, plugin,
                   launchIssued, launchOk, faults, backoff, podQueue, listeners,
                   lastDelay,
                   pendingEval, listenerTask,
                   yieldVars,
                   execVars,
                   httpVars,
                   queuerVars>>

\* variant: a launched task that is still pending is unregistered, not killed
DeleteVerdictPendingUnregisters(state, launched) ==
    IF state = "pending" THEN "unregister"
    ELSE IF state = "running" THEN "kill"
    ELSE "noSuchTask"

\* variant: the launched flag is not looked at, every task is killed
DeleteVerdictAlwaysKill(state, launched) ==
    IF state \in {"pending", "running"} THEN "kill" ELSE "noSuchTask"

\* which branch of deleteOne's switch a task takes
DeleteVerdict(state, launched) ==
    IF state = "pending" /\ ~launched THEN "unregister"
    ELSE IF state \in {"pending", "running"} THEN "kill"
    ELSE "noSuchTask"

\* variant: an unresolved pod-key is reported as noSuchTask
deleteLookupNoSuchTask(p2t, p) == IF p2t[p] = NoTask THEN noSuchTaskErr ELSE ""

\* taskId, exists := taskForPod(podKey); if !exists { return noSuchPodErr }
deleteLookup(p2t, p) == IF p2t[p] = NoTask THEN noSuchPodErr ELSE ""

\* the body of deleteOne, under the lock
DeleteBody ==
    /\ deleter.pc = "body"
    /\ podQueue' = dequeue(podQueue, deleter.pod)
    /\ LET tid == podToTask[deleter.pod]
       IN  IF deleteLookup(podToTask, deleter.pod) # ""
           THEN /\ deleter' = [deleter EXCEPT
                                 !.pc = "ret",
                                 !.err = deleteLookup(podToTask, deleter.pod)]
                /\ UNCHANGED <<podToTask, tasks, offers, faults>>
           ELSE LET verdict == DeleteVerdict(getTask(tid), tasks[tid].launched)
                    t == tasks[tid]
                IN  CASE verdict = "unregister" ->
                           LET ofs == IF hasAcceptedOffer(t)
                                      THEN Release(offers, t.offer) ELSE offers
                               tks == IF hasAcceptedOffer(t)
                                      THEN [tasks EXCEPT ![tid] = ClearTaskInfo(@)]
                                      ELSE tasks
                               unreg == unregisterPodTask(podToTask, tks, tid)
                           IN  /\ offers' = ofs
                               /\ podToTask' = unreg[1]
                               /\ tasks' = unreg[2]
                               /\ deleter' = [deleter EXCEPT !.pc = "ret", !.tid = tid]
                               /\ UNCHANGED faults
                      [] verdict = "kill" ->
                           /\ tasks' = [tasks EXCEPT ![tid].deleted = TRUE,
                                                     ![tid].host = ""]
                           /\ \/ /\ deleter' = [deleter EXCEPT !.pc = "ret", !.tid = tid,
                                                               !.kill = TRUE]
                                 /\ UNCHANGED faults
                              \/ /\ faults > 0
                                 /\ faults' = faults - 1
                                 /\ deleter' = [deleter EXCEPT !.pc = "ret", !.tid = tid,
                                                               !.kill = TRUE,
                                                               !.err = "killFailed"]
                           /\ UNCHANGED <<podToTask, offers>>
                      [] OTHER ->
                           /\ deleter' = [deleter EXCEPT !.pc = "ret", !.tid = tid,
                                                         !.err = noSuchTaskErr]
                           /\ UNCHANGED <<podToTask, tasks, offers, faults>>
    /\ UNCHANGED <<nextTask, slaves, podStore, lock, plugin, launchIssued, launchOk,
                   backoff, listeners,
                   lastDelay,
                   pendingEval, listenerTask,
                   yieldVars,
                   execVars,
                   httpVars,
                   queuerVars>>

\* deleteOne returns: the deferred Unlock
DeleteReturn ==
    /\ deleter.pc = "ret"
    /\ lock' = [lock EXCEPT !.w = "none"]
    /\ deleter' = IdleD
    /\ UNCHANGED <<podToTask, tasks, nextTask, offers, slaves, podStore, plugin,
                   launchIssued, launchOk, faults, backoff, podQueue, listeners,
                   lastDelay,
                   pendingEval, listenerTask,
                   yieldVars,
                   execVars,
                   httpVars,
                   queuerVars>>

\* --------------------------------------------------- driver callbacks, time
\* ResourceOffers: a fresh offer from slave s enters the registry, s becomes known
ResourceOffers(o) ==
    /\ offers[o].st = "unseen"
    /\ \A q \in OfferIds : q < o => offers[q].st # "unseen"
    /\ offers' = [offers EXCEPT ![o] = [st |-> "live", slave |-> SlaveOf(o),
                                        acquired |-> FALSE]]
    /\ slaves' = slaves \cup {SlaveOf(o)}
    /\ pendingEval' = pendingEval \cup {<<p, o>> : p \in listeners}
    /\ UNCHANGED <<podToTask, tasks, nextTask, podStore, lock, plugin, deleter,
                   launchIssued, launchOk, faults, backoff, podQueue, listeners,
                   lastDelay, listenerTask,
                   yieldVars,
                   execVars,
                   httpVars,
                   queuerVars>>

\* OfferRescinded, or the registry's sweep of an expired offer: the offer is removed
OfferRescinded(o) ==
    /\ offers[o].st \in {"live", "expired"}
    /\ offers' = Invalidate(offers, o)
    /\ UNCHANGED <<podToTask, tasks, nextTask, slaves, podStore, lock, plugin, deleter,
                   launchIssued, launchOk, faults, backoff, podQueue, listeners,
                   lastDelay,
                   pendingEval, listenerTask,
                   yieldVars,
                   execVars,
                   httpVars,
                   queuerVars>>

\* the offer's TTL runs out: it stays in the registry, expired
OfferExpires(o) ==
    /\ offers[o].st = "live"
    /\ offers' = [offers EXCEPT ![o].st = "expired"]
    /\ UNCHANGED <<podToTask, tasks, nextTask, slaves, podStore, lock, plugin, deleter,
                   launchIssued, launchOk, faults, backoff, podQueue, listeners,
                   lastDelay,
                   pendingEval, listenerTask,
                   yieldVars,
                   execVars,
                   httpVars,
                   queuerVars>>

\* SlaveLost: the slave record is dropped
SlaveLost(s) ==
    /\ s \in slaves
    /\ slaves' = slaves \ {s}
    /\ UNCHANGED <<podToTask, tasks, nextTask, offers, podStore, lock, plugin, deleter,
                   launchIssued, launchOk, faults, backoff, podQueue, listeners,
                   lastDelay,
                   pendingEval, listenerTask,
                   yieldVars,
                   execVars,
                   httpVars,
                   queuerVars>>

\* StatusUpdate, under the scheduler lock: RUNNING moves a launched task to
\* running; a terminal status unregisters it and releases any offer it holds
StatusUpdate(tid, terminal) ==
    /\ LockFree
    /\ tasks[tid].state \in {"pending", "running"}
    /\ tasks[tid].launched
    /\ IF terminal
       THEN LET unreg == unregisterPodTask(podToTask, tasks, tid)
            IN  /\ offers' = Release(offers, tasks[tid].offer)
                /\ podToTask' = unreg[1]
                /\ tasks' = unreg[2]
       ELSE /\ tasks[tid].state = "pending"
            /\ tasks' = [tasks EXCEPT ![tid].state = "running"]
            /\ UNCHANGED <<podToTask, offers>>
    /\ UNCHANGED <<nextTask, slaves, podStore, lock, plugin, deleter, launchIssued,
                   launchOk, faults, backoff, podQueue, listeners,
                   lastDelay,
                   pendingEval, listenerTask,
                   yieldVars,
                   execVars,
                   httpVars,
                   queuerVars>>

\* ------------------------------------------------------------------ queuer
\* the reflector writes a pod to the store (podStoreAdapter.Add / Update)
StoreUpdate(p, obj) ==
    /\ podStore' = [podStore EXCEPT ![p] = "UPDATE"]
    /\ storeObj' = [storeObj EXCEPT ![p] = obj]
    /\ \/ podStore[p] # "UPDATE"
       \/ storeObj[p] # obj
    /\ UNCHANGED <<registryVars, podQueue, queueObj, yielder,
                   execVars,
                   httpVars,
                   queuerVars>>

\* podStore.Await: the pod's update is popped, which leaves its POP event behind
Await(store, p) == [store EXCEPT ![p] = "POP"]

\* podQueue.Offer(pod, ReplaceExisting) with the deadline set to now
Offer(q, p) == [q EXCEPT ![p] = [queued |-> TRUE, delay |-> 0, notify |-> FALSE]]

\* one round of queuer.Run: a pod bound to a host leaves the delay queue, any
\* other pod is put on it; Run and yield exclude each other on the queuer's lock
RunEnqueue(p) ==
    /\ yielder.pc \in {"idle", "await"}
    /\ podStore[p] = "UPDATE"
    /\ podStore' = Await(podStore, p)
    /\ IF storeObj[p].host # ""
       THEN /\ podQueue' = dequeue(podQueue, p)
            /\ UNCHANGED queueObj
       ELSE /\ podQueue' = Offer(podQueue, p)
            /\ queueObj' = [queueObj EXCEPT ![p] = storeObj[p]]
    /\ UNCHANGED <<registryVars, storeObj, yielder,
                   execVars,
                   httpVars,
                   queuerVars>>

\* yield: podQueue.Await pops a pod
YieldAwait(p) ==
    /\ yielder.pc \in {"idle", "await"}
    /\ podQueue[p].queued
    /\ podQueue' = yield(podQueue, p)
    /\ yielder' = [yielder EXCEPT !.pc = "check", !.pod = p, !.obj = queueObj[p]]
    /\ UNCHANGED <<registryVars, podStore, storeObj, queueObj,
                   execVars,
                   httpVars,
                   queuerVars>>

\* variant: the store is not asked whether the pod is still the one popped
yieldVerdictNoPoll(obj, popped) ==
    IF ~obj.ok THEN "malformed"
    ELSE IF obj.host # "" THEN "bound"
    ELSE "return"

\* what yield does with the pod it popped: the chain of else-ifs
yieldVerdict(obj, popped) ==
    IF ~obj.ok THEN "malformed"
    ELSE IF ~popped THEN "transitioning"
    ELSE IF obj.host # "" THEN "bound"
    ELSE "return"

\* yield looks at the popped pod: it is skipped, or returned
YieldCheck ==
    /\ yielder.pc = "check"
    /\ LET p == yielder.pod
           verdict == yieldVerdict(yielder.obj, Poll(podStore, p, "POP"))
       IN  /\ podStore' = IF yielder.obj.ok THEN Polled(podStore, p, "POP")
                          ELSE podStore
           /\ yielder' = IF verdict = "return"
                         THEN [yielder EXCEPT !.pc = "ret", !.polled = TRUE]
                         ELSE [yielder EXCEPT !.pc = "await", !.skipped = TRUE]
    /\ UNCHANGED <<registryVars, podQueue, storeObj, queueObj,
                   execVars,
                   httpVars,
                   queuerVars>>

\* yield returns the pod to the scheduling loop
YieldReturn ==
    /\ yielder.pc = "ret"
    /\ yielder' = IdleY
    /\ UNCHANGED <<registryVars, podStore, podQueue, storeObj, queueObj,
                   execVars,
                   httpVars,
                   queuerVars>>

\* ---------------------------------------------------------------- executor
\* Every driver callback below holds k.lock from entry to return, and so does
\* every touchpoint of the watcher and monitor goroutines: one action is one
\* critical section.  LaunchTask reads k.registered before it takes the lock;
\* the flag is written by driver callbacks only, which the driver delivers one
\* at a time.

\* the TaskStatus handed to driver.SendStatusUpdate
TaskStatus(tid, state, message) == [task |-> tid, state |-> state, message |-> message]

\* sendStatusUpdate: the status goes to the driver, a send error is only logged
sendStatusUpdate(sent, tid, state, message) ==
    Append(sent, TaskStatus(tid, state, message))

\* variant: the update is sent as an ADD
PodUpdateAdd(pods) == [op |-> "ADD", pods |-> pods]

\* kubelet.PodUpdate{Op: SET} filled with every pod of k.pods
PodUpdate(pods) == [op |-> "SET", pods |-> pods]

\* the executor's bookkeeping as one value, for the helpers that rewrite it
ExecState == [tasks |-> kTasks, pods |-> kPods, chan |-> updateChan, sent |-> sentStatus]

SetExecState(st) ==
    /\ kTasks' = st.tasks
    /\ kPods' = st.pods
    /\ updateChan' = st.chan
    /\ sentStatus' = st.sent

\* variant: the pod entry is left behind when the task entry goes
removePodNever(st, pid) == st

\* delete(k.pods, pid) and the SET update that follows it
removePod(st, pid) ==
    [st EXCEPT !.pods = st.pods \ {pid},
               !.chan = Append(st.chan, PodUpdate(st.pods \ {pid}))]

\* killPodForTask(tid, reason), the caller holds the lock
killPodForTask(st, tid, reason) ==
    IF st.tasks[tid] = NoName
    THEN st
    ELSE LET pid == st.tasks[tid]
             gone == [st EXCEPT !.tasks[tid] = NoName]
             done == IF pid \notin st.pods THEN gone ELSE removePod(gone, pid)
         IN  [done EXCEPT !.sent = sendStatusUpdate(done.sent, tid, TASK_KILLED, reason)]

\* variant: the lost task is only logged
reportLostTaskLogged(st, tid, reason) == st

\* reportLostTask(tid, reason), the caller holds the lock
reportLostTask(st, tid, reason) ==
    IF st.tasks[tid] = NoName
    THEN st
    ELSE LET pid == st.tasks[tid]
             gone == [st EXCEPT !.tasks[tid] = NoName]
             done == IF pid \notin st.pods THEN gone ELSE removePod(gone, pid)
         IN  [done EXCEPT !.sent = sendStatusUpdate(done.sent, tid, TASK_LOST, reason)]

Registered ==
    /\ registered' = TRUE
    /\ UNCHANGED <<kTasks, kPods, updateChan, sentStatus, watchers, monitors,
                   kubelet, launches, schedVars,
                   httpVars,
                   queuerVars>>

Reregistered ==
    /\ registered' = TRUE
    /\ UNCHANGED <<kTasks, kPods, updateChan, sentStatus, watchers, monitors,
                   kubelet, launches, schedVars,
                   httpVars,
                   queuerVars>>

Disconnected ==
    /\ registered' = FALSE
    /\ UNCHANGED <<kTasks, kPods, updateChan, sentStatus, watchers, monitors,
                   kubelet, launches, schedVars,
                   httpVars,
                   queuerVars>>

\* variant: the task map is not consulted
launchVerdictNoDuplicates(reg, tks, tid, data) ==
    IF ~reg THEN "notRegistered"
    ELSE IF ~data.ok THEN "badYaml"
    ELSE "launch"

\* variant: the registered flag is not consulted
launchVerdictAnyExecutor(reg, tks, tid, data) ==
    IF tks[tid] # NoName THEN "duplicate"
    ELSE IF ~data.ok THEN "badYaml"
    ELSE "launch"

\* the order of LaunchTask's checks
launchVerdict(reg, tks, tid, data) ==
    IF ~reg THEN "notRegistered"
    ELSE IF tks[tid] # NoName THEN "duplicate"
    ELSE IF ~data.ok THEN "badYaml"
    ELSE "launch"

LaunchTask(tid, data) ==
    /\ launches < MaxLaunches
    /\ launches' = launches + 1
    /\ LET v == launchVerdict(registered, kTasks, tid, data)
           podFullName == GetPodFullName(data.name, data.namespace, sourcename)
       IN  CASE v = "notRegistered" ->
                  /\ sentStatus' = sendStatusUpdate(sentStatus, tid, TASK_FAILED,
                                                    "Executor not registered yet")
                  /\ UNCHANGED <<kTasks, kPods, updateChan, watchers>>
             [] v = "duplicate" ->
                  UNCHANGED <<kTasks, kPods, updateChan, watchers, sentStatus>>
             [] v = "badYaml" ->
                  /\ sentStatus' = sendStatusUpdate(sentStatus, tid, TASK_FAILED,
                                                    "Failed to extract yaml data")
                  /\ UNCHANGED <<kTasks, kPods, updateChan, watchers>>
             [] v = "launch" ->
                  /\ kTasks' = [kTasks EXCEPT ![tid] = podFullName]
                  /\ kPods' = kPods \cup {podFullName}
                  /\ updateChan' = Append(updateChan, PodUpdate(kPods'))
                  /\ watchers' = [watchers EXCEPT ![<<tid, podFullName>>] = @ + 1]
                  /\ UNCHANGED sentStatus
    /\ UNCHANGED <<registered, monitors, kubelet, schedVars,
                   httpVars,
                   queuerVars>>

\* the launch watcher found the pod's "net" container running: TASK_RUNNING goes
\* out and the monitor takes over
WatcherRunning(tid, pid) ==
    /\ watchers[<<tid, pid>>] > 0
    /\ kubelet[pid] = "running"
    /\ sentStatus' = Append(sentStatus,
                            TaskStatus(tid, TASK_RUNNING, "Pod is running"))
    /\ watchers' = [watchers EXCEPT ![<<tid, pid>>] = @ - 1]
    /\ monitors' = [monitors EXCEPT ![<<tid, pid>>] = @ + 1]
    /\ UNCHANGED <<registered, kTasks, kPods, updateChan, kubelet, launches,
                   schedVars,
                   httpVars,
                   queuerVars>>

\* the launch grace period ran out before a poll saw the pod running
WatcherExpired(tid, pid) ==
    /\ watchers[<<tid, pid>>] > 0
    /\ SetExecState(reportLostTask(ExecState, tid, "Task lost: launch failed"))
    /\ watchers' = [watchers EXCEPT ![<<tid, pid>>] = @ - 1]
    /\ UNCHANGED <<registered, monitors, kubelet, launches, schedVars,
                   httpVars,
                   queuerVars>>

\* variant: the runtime is not asked
checkForLostPodTaskUnasked(st, tid, isKnownPod) ==
    IF st.tasks[tid] # NoName
    THEN <<TRUE, reportLostTask(st, tid, "Task lost: container disappeared")>>
    ELSE <<TRUE, st>>

\* checkForLostPodTask: TRUE when the monitor is to stop
checkForLostPodTask(st, tid, isKnownPod) ==
    IF st.tasks[tid] # NoName
    THEN IF isKnownPod
         THEN <<FALSE, st>>
         ELSE <<TRUE, reportLostTask(st, tid, "Task lost: container disappeared")>>
    ELSE <<TRUE, st>>

\* one poll of the lost-pod monitor; a poll that finds the pod is no step
MonitorPoll(tid, pid) ==
    /\ monitors[<<tid, pid>>] > 0
    /\ LET r == checkForLostPodTask(ExecState, tid, kubelet[pid] # "absent")
       IN  /\ r[1]
           /\ SetExecState(r[2])
    /\ monitors' = [monitors EXCEPT ![<<tid, pid>>] = @ - 1]
    /\ UNCHANGED <<registered, watchers, kubelet, launches, schedVars,
                   httpVars,
                   queuerVars>>

\* variant: a disconnected executor kills as well
killVerdictAnyExecutor(reg) == TRUE

\* KillTask acts on a registered executor only
killVerdict(reg) == reg

KillTask(tid) ==
    /\ IF killVerdict(registered)
       THEN SetExecState(killPodForTask(ExecState, tid, "Task killed"))
       ELSE UNCHANGED <<kTasks, kPods, updateChan, sentStatus>>
    /\ UNCHANGED <<registered, watchers, monitors, kubelet, launches, schedVars,
                   httpVars,
                   queuerVars>>

\* the task-ids of k.tasks in the orders a range over the map may take
RECURSIVE Orders(_)
Orders(S) ==
    IF S = {} THEN {<<>>}
    ELSE UNION {{<<t>> \o o : o \in Orders(S \ {t})} : t \in S}

\* variant: the range stops after the first task
killFirst(st, ord) ==
    IF ord = <<>> THEN st
    ELSE killPodForTask(st, Head(ord), "Executor shutdown")

RECURSIVE killAll(_, _)
killAll(st, ord) ==
    IF ord = <<>> THEN st
    ELSE killAll(killPodForTask(st, Head(ord), "Executor shutdown"), Tail(ord))

Shutdown ==
    /\ \E ord \in Orders({t \in ExecTasks : kTasks[t] # NoName}) :
          SetExecState(killAll(ExecState, ord))
    /\ UNCHANGED <<registered, watchers, monitors, kubelet, launches, schedVars,
                   httpVars,
                   queuerVars>>

\* the container runtime works towards the pod set it was last handed, and a
\* pod may go away at any time
Desired == IF updateChan = <<>> THEN {} ELSE updateChan[Len(updateChan)].pods

KubeletSync(pid) ==
    /\ \/ /\ pid \in Desired
          /\ kubelet[pid] = "absent"
          /\ kubelet' = [kubelet EXCEPT ![pid] = "starting"]
       \/ /\ pid \in Desired
          /\ kubelet[pid] = "starting"
          /\ kubelet' = [kubelet EXCEPT ![pid] = "running"]
       \/ /\ kubelet[pid] # "absent"
          /\ kubelet' = [kubelet EXCEPT ![pid] = "absent"]
    /\ UNCHANGED <<registered, kTasks, kPods, updateChan, sentStatus, watchers,
                   monitors, launches, schedVars,
                   httpVars,
                   queuerVars>>

\* ------------------------------------------------------ mesosClient.httpDo
\* what c.client.Do hands to f: a 200 response with a good body, a response
\* with another status, a body that cannot be read, a body that is no JSON, an
\* error of the transport (the client's timeout), the error of a cancelled
\* request
DoOutcomes == {"ok", "status", "unreadable", "badjson", "timeout"}
ContextErrors == {"canceled", "deadlineExceeded"}

\* the handlers of EnumerateSlaves and slaveRunningKubeletExecutor: the error
\* of the request, of the status check, of ReadAll or of Unmarshal, else nil
responseHandler(res) ==
    CASE res = "ok" -> ""
      [] res = "status" -> "requestFailed"
      [] res = "unreadable" -> "readError"
      [] res = "badjson" -> "unmarshalError"
      [] res = "timeout" -> "clientTimeout"
      [] res = "cancelled" -> "requestCanceled"

\* ch := make(chan error, 1); go func() { ch <- f(c.client.Do(req)) }()
HttpDoEnter ==
    /\ caller.pc = "idle"
    /\ httpCalls < MaxCalls
    /\ httpCalls' = httpCalls + 1
    /\ ch' = <<>>
    /\ handler' = [pc |-> "do", req |-> "inflight", res |-> "", err |-> "",
                   ctxFirst |-> FALSE]
    /\ caller' = [pc |-> "select", branch |-> "", ret |-> ""]
    /\ UNCHANGED <<ctx, registryVars, podStore, podQueue, yieldVars, execVars,
                   queuerVars>>

\* c.client.Do(req) returns; a request that was cancelled returns its error
ClientDo(out) ==
    /\ handler.pc = "do"
    /\ handler' = [handler EXCEPT
                      !.pc = "f",
                      !.res = IF handler.req = "cancelled" THEN "cancelled" ELSE out,
                      !.req = "complete",
                      !.ctxFirst = (ctx # "")]
    /\ UNCHANGED <<ctx, ch, caller, httpCalls,
                   registryVars, podStore, podQueue, yieldVars, execVars,
                   queuerVars>>

\* f returns
HandlerReturns ==
    /\ handler.pc = "f"
    /\ handler' = [handler EXCEPT !.pc = "send", !.err = responseHandler(handler.res)]
    /\ UNCHANGED <<ctx, ch, caller, httpCalls,
                   registryVars, podStore, podQueue, yieldVars, execVars,
                   queuerVars>>

\* ch <- the handler's error; the goroutine ends
HandlerSend ==
    /\ handler.pc = "send"
    /\ Len(ch) < 1
    /\ ch' = Append(ch, handler.err)
    /\ handler' = [handler EXCEPT !.pc = "done"]
    /\ UNCHANGED <<ctx, caller, httpCalls,
                   registryVars, podStore, podQueue, yieldVars, execVars,
                   queuerVars>>

\* the context is cancelled or its deadline passes
CtxDone(e) ==
    /\ ctx = ""
    /\ ctx' = e
    /\ UNCHANGED <<ch, caller, handler, httpCalls,
                   registryVars, podStore, podQueue, yieldVars, execVars,
                   queuerVars>>

\* select takes <-ctx.Done(): c.tr.CancelRequest(req)
SelectDone ==
    /\ caller.pc = "select"
    /\ ctx # ""
    /\ caller' = [caller EXCEPT !.pc = "wait", !.branch = "done"]
    /\ handler' = [handler EXCEPT
                      !.req = IF @ = "inflight" THEN "cancelled" ELSE @]
    /\ UNCHANGED <<ctx, ch, httpCalls,
                   registryVars, podStore, podQueue, yieldVars, execVars,
                   queuerVars>>

\* select takes err := <-ch
SelectResult ==
    /\ caller.pc = "select"
    /\ ch # <<>>
    /\ caller' = [pc |-> "ret", branch |-> "ch", ret |-> Head(ch)]
    /\ ch' = Tail(ch)
    /\ UNCHANGED <<ctx, handler, httpCalls,
                   registryVars, podStore, podQueue, yieldVars, execVars,
                   queuerVars>>

\* variant: the cancelled call does not wait for the handler
handlerReturnedOrNot(c) == TRUE

\* <-ch can proceed
handlerReturned(c) == c # <<>>

\* <-ch after the cancellation, then return ctx.Err()
WaitResult ==
    /\ caller.pc = "wait"
    /\ handlerReturned(ch)
    /\ ch' = <<>>
    /\ caller' = [caller EXCEPT !.pc = "ret", !.ret = ctx]
    /\ UNCHANGED <<ctx, handler, httpCalls,
                   registryVars, podStore, podQueue, yieldVars, execVars,
                   queuerVars>>

\* httpDo has returned to EnumerateSlaves or slaveRunningKubeletExecutor
HttpDoReturn ==
    /\ caller.pc = "ret"
    /\ caller' = IdleCaller
    /\ handler' = IF handler.pc = "done" THEN NoHandler ELSE handler
    /\ UNCHANGED <<ctx, ch, httpCalls,
                   registryVars, podStore, podQueue, yieldVars, execVars,
                   queuerVars>>

\* --------------------------------------------- queuer loops and deleter.Run
\* c.Broadcast(): wakes the goroutine blocked in c.Wait(), if there is one
Broadcast(w, c) == IF w[c] = "waiting" THEN [w EXCEPT ![c] = "woken"] ELSE w

\* q.lock.Lock() at the top of Run's function and of yield
QueuerLock(c) ==
    /\ loops[c] \in {"start", "returned"}
    /\ queuerLock = "free"
    /\ queuerLock' = c
    /\ loops' = [loops EXCEPT ![c] = "await"]
    /\ UNCHANGED <<waiters, storeHead, delayHead, updates, lastEntry,
                   queuerInputs, schedVars, execVars, httpVars>>

\* Run: podStore.Await returned a pod; a bound pod is dequeued, an unbound one
\* is offered with deadline now and unscheduledCond is broadcast
RunPop ==
    /\ loops["deltaCond"] = "await"
    /\ storeHead # "none"
    /\ storeHead' = "none"
    /\ IF storeHead = "bound"
       THEN /\ delayHead' = "empty"
            /\ UNCHANGED waiters
       ELSE /\ delayHead' = "ready"
            /\ waiters' = Broadcast(waiters, "unscheduledCond")
    /\ UNCHANGED <<queuerLock, loops, updates, lastEntry,
                   queuerInputs, schedVars, execVars, httpVars>>

\* yield: podQueue.Await returned a pod; it is skipped (malformed, transitioning
\* or host-bound) or returned, and returning unlocks the mutex
YieldPop(skip) ==
    /\ loops["unscheduledCond"] = "await"
    /\ delayHead = "ready"
    /\ delayHead' = "empty"
    /\ IF skip
       THEN UNCHANGED <<queuerLock, loops>>
       ELSE /\ loops' = [loops EXCEPT !["unscheduledCond"] = "returned"]
            /\ queuerLock' = "free"
    /\ UNCHANGED <<waiters, storeHead, updates, lastEntry,
                   queuerInputs, schedVars, execVars, httpVars>>

\* Await timed out with nothing to pop: the loop starts the goroutine that will
\* call Wait and goes on to its select, the mutex still locked
AwaitNil(c) ==
    /\ loops[c] = "await"
    /\ IF c = "deltaCond" THEN storeHead = "none" ELSE delayHead # "ready"
    /\ loops' = [loops EXCEPT ![c] = "select"]
    /\ waiters' = [waiters EXCEPT ![c] = "spawned"]
    /\ UNCHANGED <<queuerLock, storeHead, delayHead, updates, lastEntry,
                   queuerInputs, schedVars, execVars, httpVars>>

\* the goroutine enters Cond.Wait: it joins the notify list and unlocks the mutex
CondWait(c) ==
    /\ waiters[c] = "spawned"
    /\ waiters' = [waiters EXCEPT ![c] = "waiting"]
    /\ queuerLock' = "free"
    /\ UNCHANGED <<loops, storeHead, delayHead, updates, lastEntry,
                   queuerInputs, schedVars, execVars, httpVars>>

\* case <-time.After(timeout): the loop broadcasts to abort Wait and then blocks
\* on <-signalled
WaitTimeout(c) ==
    /\ loops[c] = "select"
    /\ loops' = [loops EXCEPT ![c] = "drain"]
    /\ waiters' = Broadcast(waiters, c)
    /\ UNCHANGED <<queuerLock, storeHead, delayHead, updates, lastEntry,
                   queuerInputs, schedVars, execVars, httpVars>>

\* Cond.Wait returns: the woken goroutine locks the mutex again and its deferred
\* close(signalled) runs
CondRelock(c) ==
    /\ waiters[c] = "woken"
    /\ queuerLock = "free"
    /\ queuerLock' = c
    /\ waiters' = [waiters EXCEPT ![c] = "signalled"]
    /\ UNCHANGED <<loops, storeHead, delayHead, updates, lastEntry,
                   queuerInputs, schedVars, execVars, httpVars>>

\* <-signalled, in the select or after the timeout's broadcast; the loop continues
Signalled(c) ==
    /\ loops[c] \in {"select", "drain"}
    /\ waiters[c] = "signalled"
    /\ loops' = [loops EXCEPT ![c] = "await"]
    /\ waiters' = [waiters EXCEPT ![c] = "none"]
    /\ UNCHANGED <<queuerLock, storeHead, delayHead, updates, lastEntry,
                   queuerInputs, schedVars, execVars, httpVars>>

\* queuer.requeue: Add with KeepExisting and a delay, then unscheduledCond.Broadcast
requeueBroadcast ==
    /\ queuerInputs < MaxInputs
    /\ queuerInputs' = queuerInputs + 1
    /\ delayHead' = IF delayHead = "empty" THEN "delayed" ELSE delayHead
    /\ waiters' = Broadcast(waiters, "unscheduledCond")
    /\ UNCHANGED <<queuerLock, loops, storeHead, updates, lastEntry,
                   schedVars, execVars, httpVars>>

\* the deadline of the head of the delay queue is reached
DeadlinePasses ==
    /\ delayHead = "delayed"
    /\ delayHead' = "ready"
    /\ UNCHANGED <<queuerLock, loops, waiters, storeHead, updates, lastEntry,
                   queuerInputs, schedVars, execVars, httpVars>>

\* the historical store records an event: it posts an entry on the updates
\* channel, and an added or updated pod becomes what Await pops next
StoreEvent(kind, host) ==
    /\ queuerInputs < MaxInputs
    /\ Len(updates) < MaxBacklog
    /\ queuerInputs' = queuerInputs + 1
    /\ updates' = Append(updates, kind)
    /\ storeHead' = IF kind \in {"ADD", "UPDATE"} THEN host
                    ELSE IF kind = "DELETE" THEN "none"
                    ELSE storeHead
    /\ UNCHANGED <<queuerLock, loops, waiters, delayHead, lastEntry,
                   schedVars, execVars, httpVars>>

\* variant: every entry that is not a DELETE is forwarded
deleterVerdictForwardsPop(kind) ==
    IF kind = "DELETE" THEN "deleteOne" ELSE "updatesAvailable"

\* the branch deleter.Run takes for an entry
deleterVerdict(kind) ==
    IF kind = "DELETE" THEN "deleteOne"
    ELSE IF kind # "POP" THEN "updatesAvailable"
    ELSE "none"

\* deleter.Run: entry := <-updates, then deleteOne (which starts by taking the
\* scheduler lock), updatesAvailable, or nothing
DeleterRecv(p) ==
    /\ updates # <<>>
    /\ deleter.pc = "idle"
    /\ LET kind == Head(updates)
           did == deleterVerdict(kind)
       IN  /\ updates' = Tail(updates)
           /\ lastEntry' = [kind |-> kind, did |-> did]
           /\ IF did = "deleteOne"
              THEN /\ LockFree
                   /\ lock' = [lock EXCEPT !.w = "deleter"]
                   /\ deleter' = [IdleD EXCEPT !.pc = "body", !.pod = p]
                   /\ UNCHANGED waiters
              ELSE /\ waiters' = IF did = "updatesAvailable"
                                 THEN Broadcast(waiters, "deltaCond")
                                 ELSE waiters
                   /\ UNCHANGED <<lock, deleter>>
    /\ UNCHANGED <<queuerLock, loops, storeHead, delayHead,
                   podToTask, tasks, nextTask, offers, slaves, plugin,
                   launchIssued, launchOk, faults, backoff, listeners, lastDelay,
                   pendingEval, listenerTask, podStore, podQueue, yieldVars,
                   execVars, httpVars, queuerInputs>>

\* ------------------------------------------------------------ specifications
\* the workload of the specification that follows the error handler: one pod
OnePod == {"p1"}

\* the handler seen from the registries: it takes and drops the read lock and
\* writes only the backoff table, the delay queue and the listeners
ErrorElided ==
    /\ plugin.op = "Error" /\ plugin.pc = "enter"
    /\ plugin.err # noSuchPodErr => lock.w = "none"
    /\ plugin' = IdleP
    /\ UNCHANGED <<podToTask, tasks, nextTask, offers, slaves, podStore, lock, deleter,
                   launchIssued, launchOk, faults, backoff, podQueue, listeners,
                   lastDelay,
                   pendingEval, listenerTask,
                   yieldVars,
                   execVars,
                   httpVars,
                   queuerVars>>

Schedule(P) ==
    \/ \E p \in P : ScheduleLock(p)
    \/ ScheduleBody
    \/ ScheduleReturn
    \/ ScheduleReturnError

Bind ==
    \/ BindLock
    \/ BindCheck
    \/ BindPrepare
    \/ BindPost
    \/ BindLaunch
    \/ BindInvalidate
    \/ BindStamp
    \/ BindFail
    \/ BindReturn
    \/ BindReturnError

deleteOne(P) ==
    \/ \E p \in P : DeleteLock(p)
    \/ DeleteBody
    \/ DeleteReturn

handleSchedulingError ==
    \/ ErrorEnter
    \/ ErrorBody
    \/ ErrorReturn

OfferEvents ==
    \/ \E o \in OfferIds : ResourceOffers(o)
    \/ \E o \in OfferIds : OfferRescinded(o)
    \/ \E o \in OfferIds : OfferExpires(o)

\* Schedule, Bind and deleteOne on two pods against the driver's callbacks
Next ==
    \/ Schedule(Pods)
    \/ Bind
    \/ ErrorElided
    \/ deleteOne(Pods)
    \/ OfferEvents
    \/ \E t \in TaskIds, term \in BOOLEAN : StatusUpdate(t, term)
    \/ \E s \in Slaves : SlaveLost(s)

Spec == Init /\ [][Next]_vars

\* the same loop against the reflector's DELETE events
NextStore ==
    \/ Schedule(Pods)
    \/ Bind
    \/ ErrorElided
    \/ deleteOne(Pods)
    \/ OfferEvents
    \/ \E p \in Pods : StoreDelete(p)

SpecStore == Init /\ [][NextStore]_vars

\* one pod through Schedule, Bind and the error handler, with time passing
NextErr ==
    \/ Schedule(OnePod)
    \/ Bind
    \/ handleSchedulingError
    \/ OfferEvents
    \/ \E p \in OnePod, o \in OfferIds : ListenerEval(p, o)
    \/ TimePasses

SpecErr == Init /\ [][NextErr]_vars

\* one pod through Schedule, Bind and the handler, against deleteOne and the
\* task's status updates
NextHandler ==
    \/ Schedule(OnePod)
    \/ Bind
    \/ handleSchedulingError
    \/ deleteOne(OnePod)
    \/ OfferEvents
    \/ \E p \in OnePod, o \in OfferIds : ListenerEval(p, o)
    \/ \E t \in TaskIds, term \in BOOLEAN : StatusUpdate(t, term)

SpecHandler == Init /\ [][NextHandler]_vars

\* the queuer alone: the reflector's writes, the enqueue loop and yield
NextYield ==
    \/ \E p \in Pods, obj \in PodObjects : StoreUpdate(p, obj)
    \/ \E p \in Pods : StoreDelete(p)
    \/ \E p \in Pods : RunEnqueue(p)
    \/ \E p \in Pods : YieldAwait(p)
    \/ YieldCheck
    \/ YieldReturn

SpecYield == Init /\ [][NextYield]_vars

\* the executor with its goroutines and the container runtime
NextExec ==
    \/ Registered
    \/ Reregistered
    \/ Disconnected
    \/ \E t \in ExecTasks, d \in Payloads : LaunchTask(t, d)
    \/ \E t \in ExecTasks, n \in FullNames : WatcherRunning(t, n)
    \/ \E t \in ExecTasks, n \in FullNames : WatcherExpired(t, n)
    \/ \E t \in ExecTasks, n \in FullNames : MonitorPoll(t, n)
    \/ \E t \in ExecTasks : KillTask(t)
    \/ Shutdown
    \/ \E n \in FullNames : KubeletSync(n)

SpecExec == Init /\ [][NextExec]_vars

\* the executor with watcher goroutines that keep running: the clock moves on,
\* so the grace period of a watcher that is still polling runs out
SpecExecLive ==
    /\ SpecExec
    /\ \A t \in ExecTasks, n \in FullNames : WF_vars(WatcherExpired(t, n))

\* the calls of httpDo on one context, with the context's cancellation
NextHttp ==
    \/ HttpDoEnter
    \/ \E out \in DoOutcomes : ClientDo(out)
    \/ HandlerReturns
    \/ HandlerSend
    \/ \E e \in ContextErrors : CtxDone(e)
    \/ SelectDone
    \/ SelectResult
    \/ WaitResult
    \/ HttpDoReturn

SpecHttp == Init /\ [][NextHttp]_vars

\* the queuer's two loops with their condition variables, and the deleter
\* reading the updates channel
NextQueuer ==
    \/ \E c \in Conds : QueuerLock(c)
    \/ RunPop
    \/ \E skip \in BOOLEAN : YieldPop(skip)
    \/ \E c \in Conds : AwaitNil(c)
    \/ \E c \in Conds : CondWait(c)
    \/ \E c \in Conds : WaitTimeout(c)
    \/ \E c \in Conds : CondRelock(c)
    \/ \E c \in Conds : Signalled(c)
    \/ requeueBroadcast
    \/ DeadlinePasses
    \/ \E kind \in EventKinds, host \in {"bound", "unbound"} : StoreEvent(kind, host)
    \/ \E p \in Pods : DeleterRecv(p)
    \/ DeleteBody
    \/ DeleteReturn

SpecQueuer == Init /\ [][NextQueuer]_vars

\* every goroutine of the queuer and the deleter keeps running, every timer
\* fires, every deadline is reached, and a goroutine that keeps finding the
\* mutex unlocked gets it; pod events and requeues are finitely many
SpecQueuerFair ==
    /\ SpecQueuer
    /\ \A c \in Conds :
          /\ SF_vars(QueuerLock(c))
          /\ WF_vars(AwaitNil(c))
          /\ WF_vars(CondWait(c))
          /\ WF_vars(WaitTimeout(c))
          /\ SF_vars(CondRelock(c))
          /\ WF_vars(Signalled(c))
    /\ WF_vars(RunPop)
    /\ WF_vars(YieldPop(FALSE))
    /\ WF_vars(DeadlinePasses)
    /\ WF_vars(\E p \in Pods : DeleterRecv(p))
    /\ WF_vars(DeleteBody)
    /\ WF_vars(DeleteReturn)

\* ==================================================================== claims
\* the frame of a Bind / Schedule call that has reached its return, lock still held
BindAtReturn == plugin.op = "Bind" /\ plugin.pc = "ret"
ScheduleAtReturn == plugin.op = "Schedule" /\ plugin.pc = "ret"

\* C1 as stated: LaunchTasks is issued at most once for any offer id, and when
\* Bind has launched, the offer is out of the registry before the lock is released
C1_Original ==
    /\ \A o \in OfferIds : launchIssued[o] <= 1
    /\ (BindAtReturn /\ plugin.err = "") =>
           (plugin.issued /\ plugin.off # NoOffer /\ offers[plugin.off].st = "gone")

\* C1, amended: LaunchTasks succeeds at most once for any offer id (a failed
\* LaunchTasks releases the offer, which may then be launched again), and when
\* Bind has launched, the offer is out of the registry before the lock is released
C1_LaunchOnce ==
    /\ \A o \in OfferIds : launchOk[o] <= 1
    /\ (BindAtReturn /\ plugin.err = "") =>
           (plugin.issued /\ plugin.off # NoOffer /\ offers[plugin.off].st = "gone")

\* a Bind that has launched an offer whose first LaunchTasks had failed
C1_Witness ==
    /\ BindAtReturn /\ plugin.err = ""
    /\ plugin.off # NoOffer
    /\ launchIssued[plugin.off] = 2
    /\ launchOk[plugin.off] = 1
    /\ offers[plugin.off].st = "gone"

\* C2: a bind on a pending task holding an accepted offer ends either launched,
\* with the offer out of the registry and a nil error, or not launched, with the
\* offer released, the TaskInfo cleared and an error; nothing else
C2_BindOutcome ==
    (BindAtReturn /\ plugin.off # NoOffer) =>
        LET t == tasks[plugin.tid]
            o == offers[plugin.off]
        IN  \/ /\ t.launched
               /\ plugin.err = ""
               /\ o.st = "gone"
            \/ /\ ~t.launched
               /\ plugin.err # ""
               /\ t.offer = NoOffer
               /\ ~t.taskInfo
               /\ ~o.acquired

\* a bind whose LaunchTasks failed: the offer is back in the registry, released
C2_Witness ==
    /\ BindAtReturn
    /\ plugin.issued
    /\ plugin.err = "launchFailed"
    /\ offers[plugin.off].st = "live"
    /\ ~offers[plugin.off].acquired
    /\ tasks[plugin.tid].offer = NoOffer

\* C3: every pod-key of the pod-to-task map leads to a registered task with that
\* pod-key, and every registered task is the one its pod-key leads to: neither
\* map holds an entry without its counterpart
C3_Registry ==
    /\ \A p \in Pods :
          podToTask[p] # NoTask =>
              /\ tasks[podToTask[p]].state \in {"pending", "running"}
              /\ tasks[podToTask[p]].podKey = p
    /\ \A t \in TaskIds :
          tasks[t].state # "none" => podToTask[tasks[t].podKey] = t

\* deleteOne has unregistered one pod's task while the other pod's stays registered
C3_Witness ==
    /\ deleter.pc = "ret" /\ deleter.err = "" /\ ~deleter.kill
    /\ deleter.tid # NoTask
    /\ podToTask[deleter.pod] = NoTask
    /\ tasks[deleter.tid].state = "none"
    /\ \E p \in Pods : podToTask[p] # NoTask

\* C4: Schedule on a task that is launched or not pending returns an error, runs
\* no offer matching and changes nothing; a Schedule that ran offer matching did
\* so on a task that is pending and not launched
C4_ScheduleGate ==
    /\ [](ScheduleAtReturn /\ (plugin.matched \/ plugin.host # "") =>
            /\ tasks[plugin.tid].state = "pending"
            /\ ~tasks[plugin.tid].launched)
    /\ [][(/\ plugin.op = "Schedule" /\ plugin.pc = "body"
           /\ plugin' # plugin
           /\ podToTask[plugin.pod] # NoTask
           /\ \/ tasks[podToTask[plugin.pod]].state # "pending"
              \/ tasks[podToTask[plugin.pod]].launched)
          => (/\ plugin'.pc = "ret"
              /\ plugin'.err # ""
              /\ plugin'.host = ""
              /\ ~plugin'.matched
              /\ UNCHANGED <<podToTask, tasks, nextTask, offers, slaves, podStore,
                             launchIssued, launchOk>>)]_vars

\* Schedule has refused a launched task while an offer was there to be matched
C4_Witness ==
    /\ ScheduleAtReturn
    /\ plugin.err = "alreadyLaunched"
    /\ tasks[plugin.tid].launched
    /\ Eligible(offers) # {}

\* C5: when the offer Schedule chose is no longer live in the registry as bind
\* re-checks it, bind issues neither the POST nor LaunchTasks, releases the offer,
\* clears the TaskInfo and returns an error; the task stays registered, pending
\* and not launched
C5_ExpiredOffer ==
    [][(/\ plugin.op = "Bind" /\ plugin.pc = "bind"
        /\ plugin' # plugin
        /\ tasks[plugin.tid].taskInfo
        /\ offers[tasks[plugin.tid].offer].st # "live")
       => (/\ plugin'.pc = "ret"
           /\ plugin'.err # ""
           /\ ~plugin'.posted /\ ~plugin'.issued
           /\ launchIssued' = launchIssued
           /\ tasks'[plugin.tid] = [tasks[plugin.tid] EXCEPT !.offer = NoOffer,
                                                            !.taskInfo = FALSE]
           /\ tasks'[plugin.tid].state = "pending"
           /\ ~tasks'[plugin.tid].launched
           /\ podToTask' = podToTask
           /\ ~offers'[tasks[plugin.tid].offer].acquired)]_vars

\* Bind has found its offer expired but still in the registry, and let go of it
C5_Witness ==
    /\ BindAtReturn
    /\ plugin.err = "expiredOffer"
    /\ offers[plugin.soff].st = "expired"
    /\ ~offers[plugin.soff].acquired
    /\ podToTask[plugin.pod] = plugin.tid
    /\ tasks[plugin.tid].state = "pending"
    /\ tasks[plugin.tid].offer = NoOffer

\* C6: when deleteOne runs on a pod after Schedule returned a host for it and
\* before Bind takes the lock, deleteOne releases the offer and unregisters the
\* task, and the Bind that follows returns noSuchPod without a binding POST and
\* without LaunchTasks
C6_DeleteBeforeBind ==
    /\ [][(/\ deleter.pc = "body" /\ deleter' # deleter
           /\ plugin.op = "Bind" /\ plugin.pc = "call"
           /\ deleter.pod = plugin.pod
           /\ podToTask[plugin.pod] # NoTask)
          => (/\ podToTask[plugin.pod] = plugin.stid
              /\ deleter'.pc = "ret" /\ deleter'.err = "" /\ ~deleter'.kill
              /\ podToTask'[plugin.pod] = NoTask
              /\ tasks'[plugin.stid] = NilTask
              /\ ~offers'[plugin.soff].acquired)]_vars
    /\ [][(plugin.op = "Bind" /\ podToTask[plugin.pod] = NoTask)
          => (/\ launchIssued' = launchIssued
              /\ tasks'[plugin.stid] = NilTask
              /\ plugin'.op = "Bind" => (~plugin'.posted /\ ~plugin'.issued)
              /\ (plugin.pc = "call" /\ plugin' # plugin)
                    => (plugin'.pc = "ret" /\ plugin'.err = noSuchPodErr))]_vars

\* Bind has returned noSuchPod for a pod that deleteOne unregistered after
\* Schedule had matched it to an offer, and that offer is free again
C6_Witness ==
    /\ BindAtReturn
    /\ plugin.err = noSuchPodErr
    /\ plugin.stid # NoTask /\ plugin.soff # NoOffer
    /\ podToTask[plugin.pod] = NoTask
    /\ tasks[plugin.stid] = NilTask
    /\ offers[plugin.soff].st = "live" /\ ~offers[plugin.soff].acquired
    /\ launchIssued[plugin.soff] = 0

\* C7: within Bind, payload preparation, the binding POST, LaunchTasks, offer
\* invalidation and the stamping of host and launched happen in that order, each
\* only after the previous one succeeded: LaunchTasks is never issued unless the
\* POST succeeded, launched is never set unless LaunchTasks succeeded
C7_BindOrder ==
    /\ [](plugin.op = "Bind" =>
            /\ plugin.posted => plugin.prepared
            /\ plugin.issued => plugin.posted
            /\ plugin.invalidated => (plugin.issued /\ launchOk[plugin.off] >= 1)
            /\ plugin.pc = "post" => (plugin.prepared /\ ~plugin.posted)
            /\ plugin.pc = "launch" => (plugin.posted /\ ~plugin.issued)
            /\ plugin.pc = "invalidate" => (plugin.issued /\ ~plugin.invalidated)
            /\ plugin.pc = "stamp" => plugin.invalidated)
    /\ [][/\ launchIssued' # launchIssued =>
                (plugin.op = "Bind" /\ plugin.prepared /\ plugin.posted)
          /\ \A t \in TaskIds :
                (tasks'[t].launched /\ ~tasks[t].launched) =>
                    /\ plugin.op = "Bind" /\ plugin.tid = t
                    /\ plugin.issued /\ plugin.invalidated
                    /\ launchOk[plugin.off] >= 1
                    /\ offers[plugin.off].st = "gone"
                    /\ tasks'[t].host = plugin.host]_vars

\* a Bind that went through every step and returns nil
C7_Witness ==
    /\ BindAtReturn /\ plugin.err = ""
    /\ plugin.prepared /\ plugin.posted /\ plugin.issued /\ plugin.invalidated
    /\ tasks[plugin.tid].launched
    /\ tasks[plugin.tid].host = plugin.host
    /\ plugin.host # ""

\* the handler has run for the error that bind returns on an expired or rescinded offer
RescindHandled ==
    /\ plugin.op = "Error" /\ plugin.pc = "ret"
    /\ plugin.chained = "Bind"
    /\ plugin.err = "expiredOffer"

\* C8 as stated: after Bind failed on a rescinded offer, the handler requeues the
\* pod with the initial backoff of 1s and registers an offer listener for it
C8_Original ==
    RescindHandled =>
        /\ plugin.requeued
        /\ plugin.delay = InitialBackoff
        /\ plugin.listened
        /\ plugin.pod \in listeners

\* C8, amended: after Bind failed on a rescinded offer, the handler requeues the
\* pod, still pending and not launched, with the pod's current backoff (the
\* initial 1s only when the pod has no backoff entry, else what earlier failures
\* left, never above the cap) and registers no offer listener: listeners are
\* for noSuitableOffers only
C8_RescindRequeue ==
    /\ [](RescindHandled =>
            /\ plugin.requeued
            /\ podQueue[plugin.pod] =
                   [queued |-> TRUE, delay |-> plugin.delay, notify |-> FALSE]
            /\ plugin.delay >= InitialBackoff /\ plugin.delay <= MaxDuration
            /\ ~plugin.listened)
    /\ [][(/\ plugin.op = "Error" /\ plugin.pc = "body"
           /\ plugin' # plugin
           /\ plugin.chained = "Bind" /\ plugin.err = "expiredOffer")
          => (/\ listeners' = listeners
              /\ plugin'.delay = IF backoff[plugin.pod].backoff = 0
                                 THEN InitialBackoff
                                 ELSE backoff[plugin.pod].backoff
              /\ backoff'[plugin.pod].backoff > 0)]_vars

\* the handler has requeued a pod whose Bind lost its offer to a rescind, with
\* a backoff that earlier failures had raised above the initial one
C8_Witness ==
    /\ RescindHandled
    /\ plugin.requeued
    /\ plugin.delay > InitialBackoff
    /\ podQueue[plugin.pod].queued
    /\ plugin.pod \notin listeners
    /\ \E o \in OfferIds : offers[o].st = "gone"

\* the handler has requeued the pod for noSuitableOffers, and had done so before
RepeatedNoOffers ==
    /\ plugin.op = "Error" /\ plugin.pc = "ret"
    /\ plugin.err = noSuitableOffersErr
    /\ plugin.requeued
    /\ plugin.prev > 0

\* C9 as stated: over repeated noSuitableOffers failures of one pod-key the
\* requeue delay never decreases and never exceeds the cap, backoff garbage
\* collection between the calls included
C9_Original ==
    RepeatedNoOffers =>
        /\ plugin.delay >= plugin.prev
        /\ plugin.delay <= MaxDuration

\* C9, amended: over repeated noSuitableOffers failures of one pod-key the
\* requeue delay never exceeds the cap, and never decreases as long as garbage
\* collection has not dropped the pod's entry; after the entry was collected
\* the delay starts again at the initial duration
C9_BackoffMonotone ==
    (plugin.op = "Error" /\ plugin.pc = "ret" /\ plugin.requeued) =>
        /\ plugin.delay >= InitialBackoff
        /\ plugin.delay <= MaxDuration
        /\ (RepeatedNoOffers /\ ~plugin.collected) =>
               /\ plugin.delay >= plugin.prev
               /\ plugin.delay = plugin.prev =>  plugin.prev = MaxDuration
        /\ plugin.collected => plugin.delay = InitialBackoff

\* a pod requeued at the cap, whose previous requeue was at the cap already
C9_Witness ==
    /\ RepeatedNoOffers
    /\ ~plugin.collected
    /\ plugin.prev = MaxDuration
    /\ plugin.delay = MaxDuration

\* C10: Schedule for a pod-key that has no task, while the store holds a DELETE
\* event for the pod, returns noSuchPod, creates and registers no PodTask and
\* runs no offer matching
C10_AbortDeleted ==
    [][(/\ plugin.op = "Schedule" /\ plugin.pc = "body"
        /\ plugin' # plugin
        /\ podToTask[plugin.pod] = NoTask
        /\ podStore[plugin.pod] = "DELETE")
       => (/\ plugin'.pc = "ret"
           /\ plugin'.err = noSuchPodErr
           /\ plugin'.host = ""
           /\ ~plugin'.matched /\ ~plugin'.created
           /\ plugin'.tid = NoTask
           /\ UNCHANGED <<podToTask, tasks, nextTask, offers>>)]_vars

\* Schedule has returned noSuchPod for a deleted pod while an offer was there
\* to be matched and a task-id was left to create the task with
C10_Witness ==
    /\ ScheduleAtReturn
    /\ plugin.err = noSuchPodErr
    /\ podToTask[plugin.pod] = NoTask
    /\ Eligible(offers) # {}
    /\ nextTask <= MaxTasks

\* C11: deleteOne on a task that is pending and not launched releases the task's
\* offer if it has one, clears the TaskInfo, unregisters the task and requests no
\* KillTask; on a task that is launched or running it sets deleted, clears the
\* pod's host, requests KillTask once and leaves the task registered; KillTask
\* is requested if and only if the task was launched or running
C11_DeleteBranches ==
    /\ [][(/\ deleter.pc = "body" /\ deleter' # deleter
           /\ podToTask[deleter.pod] # NoTask)
          => LET tid == podToTask[deleter.pod]
                 t == tasks[tid]
             IN  /\ deleter'.pc = "ret"
                 /\ ~deleter.kill
                 /\ deleter'.kill <=> (t.launched \/ t.state = "running")
                 /\ (t.state = "pending" /\ ~t.launched) =>
                       /\ deleter'.err = ""
                       /\ podToTask'[deleter.pod] = NoTask
                       /\ tasks'[tid] = NilTask
                       /\ t.offer # NoOffer => ~offers'[t.offer].acquired
                 /\ (t.launched \/ t.state = "running") =>
                       /\ deleter'.tid = tid
                       /\ tasks'[tid] = [t EXCEPT !.deleted = TRUE, !.host = ""]
                       /\ podToTask' = podToTask
                       /\ offers' = offers]_vars
    /\ [](deleter.kill =>
            /\ deleter.pc = "ret"
            /\ podToTask[deleter.pod] = deleter.tid
            /\ tasks[deleter.tid].deleted
            /\ tasks[deleter.tid].host = "")

\* deleteOne has asked for the kill of a launched task that was still pending
C11_Witness ==
    /\ deleter.pc = "ret" /\ deleter.kill /\ deleter.err = ""
    /\ tasks[deleter.tid].state = "pending"
    /\ tasks[deleter.tid].launched
    /\ tasks[deleter.tid].deleted
    /\ podToTask[deleter.pod] = deleter.tid

\* the handler has run to its return
ErrorAtReturn == plugin.op = "Error" /\ plugin.pc = "ret"

\* C12: handleSchedulingError requeues the pod if and only if the error is not
\* noSuchPod and the pod-key resolves to a task that is pending and not launched;
\* in every other case it requeues nothing and registers no listener; in no case
\* does it change the task registries or a task's offer
C12_RequeueGate ==
    /\ [](ErrorAtReturn =>
            /\ plugin.requeued <=>
                   /\ plugin.err # noSuchPodErr
                   /\ podToTask[plugin.pod] # NoTask
                   /\ tasks[podToTask[plugin.pod]].state = "pending"
                   /\ ~tasks[podToTask[plugin.pod]].launched
            /\ plugin.listened => plugin.requeued)
    /\ [][(plugin.op = "Error" /\ plugin' # plugin)
          => (/\ UNCHANGED <<podToTask, tasks, nextTask, offers, slaves>>
              /\ plugin'.op = "Error" =>
                    /\ podQueue' # podQueue => plugin'.requeued
                    /\ listeners' # listeners => plugin'.requeued
                    /\ plugin'.requeued =>
                          /\ podQueue'[plugin.pod].queued
                          /\ podQueue[plugin.pod].queued => podQueue' = podQueue)]_vars

\* the handler has dropped a pod whose task deleteOne unregistered after the
\* failed attempt: nothing is queued
C12_Witness ==
    /\ ErrorAtReturn
    /\ plugin.err \notin {noSuchPodErr, ""}
    /\ podToTask[plugin.pod] = NoTask
    /\ ~plugin.requeued
    /\ ~podQueue[plugin.pod].queued
    /\ "plugin" \in lock.r

\* C13: handleSchedulingError registers an offer listener if and only if the
\* error is noSuitableOffers and the task is pending and not launched, and the
\* requeued Pod carries that listener's break channel; the listener's predicate,
\* run when a later offer arrives, holds only if the task it captured is then
\* still registered, pending and not launched
C13_Listener ==
    /\ [](ErrorAtReturn =>
            (plugin.listened <=> (plugin.requeued /\ plugin.err = noSuitableOffersErr)))
    /\ [][(plugin.op = "Error" /\ plugin.pc = "body" /\ plugin' # plugin)
          => LET p == plugin.pod
             IN  /\ plugin'.listened =>
                       /\ p \in listeners'
                       /\ listenerTask'[p] = podToTask[p]
                       /\ podQueue'[p].queued /\ podQueue'[p].notify
                 /\ ~plugin'.listened =>
                       /\ listeners' = listeners
                       /\ listenerTask' = listenerTask
                       /\ plugin'.requeued => ~podQueue'[p].notify]_vars
    /\ [][\A p \in Pods :
            (p \in listeners /\ p \notin listeners') =>
                /\ \E o \in OfferIds : <<p, o>> \in pendingEval
                /\ listenerTask[p] # NoTask
                /\ podToTask[p] = listenerTask[p]
                /\ tasks[listenerTask[p]].state = "pending"
                /\ ~tasks[listenerTask[p]].launched
                /\ ~tasks[listenerTask[p]].deleted
                /\ podQueue' = breakOut(podQueue, p)]_vars

\* the listener of a requeued pod has fired on a new offer: the pod is due at once
C13_Witness ==
    \E p \in Pods :
        /\ podQueue[p].queued /\ podQueue[p].notify
        /\ podQueue[p].delay = 0
        /\ p \notin listeners
        /\ listenerTask[p] = podToTask[p]
        /\ tasks[listenerTask[p]].state = "pending"
        /\ Eligible(offers) # {}

\* deleteOne has returned without having resolved its pod-key to a task
DeleteUnresolved == deleter.pc = "ret" /\ deleter.tid = NoTask

\* C14 as stated: a delete for a pod that has no task record makes deleteOne
\* return noSuchTask, with no KillTask and no change to the registries
C14_Original ==
    DeleteUnresolved => (deleter.err = noSuchTaskErr /\ ~deleter.kill)

\* C14, amended: a delete for a pod-key that resolves to no task makes deleteOne
\* return noSuchPod, with no KillTask and no change to the task registries or
\* the offers; noSuchTask is returned only for a pod-key that does resolve to a
\* task-id
C14_DeleteUnknown ==
    /\ [](DeleteUnresolved => (deleter.err = noSuchPodErr /\ ~deleter.kill))
    /\ []((deleter.pc = "ret" /\ deleter.err = noSuchTaskErr) => deleter.tid # NoTask)
    /\ [][(/\ deleter.pc = "body" /\ deleter' # deleter
           /\ podToTask[deleter.pod] = NoTask)
          => (/\ deleter'.pc = "ret"
              /\ deleter'.err = noSuchPodErr
              /\ ~deleter'.kill
              /\ ~podQueue'[deleter.pod].queued
              /\ UNCHANGED <<podToTask, tasks, nextTask, offers>>)]_vars

\* deleteOne has returned noSuchPod for a pod without task while the other pod's
\* task is registered and launched
C14_Witness ==
    /\ DeleteUnresolved
    /\ deleter.err = noSuchPodErr
    /\ podToTask[deleter.pod] = NoTask
    /\ \E p \in Pods : podToTask[p] # NoTask /\ tasks[podToTask[p]].launched

\* C15: yield never returns a pod that is bound to a host, that is transitioning
\* (the store has no POP event for it to Poll) or that is malformed; such a pod,
\* popped from the delay queue, is skipped and yield goes on looping
C15_YieldSkips ==
    /\ [](yielder.pc = "ret" =>
            /\ yielder.obj.ok
            /\ yielder.obj.host = ""
            /\ yielder.polled)
    /\ [][(yielder.pc = "check" /\ yielder' # yielder)
          => LET p == yielder.pod
                 bad == \/ ~yielder.obj.ok
                        \/ podStore[p] # "POP"
                        \/ yielder.obj.host # ""
             IN  /\ bad => (yielder'.pc = "await" /\ yielder'.skipped)
                 /\ ~bad => (/\ yielder'.pc = "ret" /\ yielder'.pod = p
                             /\ podStore'[p] = "none")]_vars

\* yield returns a pod after having skipped one that was deleted in the store
\* while it sat in the delay queue
C15_Witness ==
    /\ yielder.pc = "ret"
    /\ yielder.skipped
    /\ \E p \in Pods : p # yielder.pod /\ podStore[p] = "DELETE"

C17_TasksAndPods ==
    /\ [](\A t \in ExecTasks :
            kTasks[t] # NoName =>
               /\ kTasks[t] \in kPods
               /\ \A u \in ExecTasks \ {t} : kTasks[u] # kTasks[t])
    /\ [][\A t \in ExecTasks :
            kTasks[t] # NoName /\ kTasks'[t] = NoName => kTasks[t] \notin kPods']_vars

\* two task-ids were launched with the same pod, and the kill of one took the
\* pod entry of the other, which is still recorded
C17_Witness ==
    \E t \in ExecTasks, u \in ExecTasks :
       /\ t # u
       /\ kTasks[t] = NoName
       /\ kTasks[u] # NoName
       /\ kTasks[u] \notin kPods
       /\ \E i \in 1..Len(sentStatus) :
             sentStatus[i].task = t /\ sentStatus[i].state = TASK_KILLED

\* the TASK_RUNNING updates sent for a task-id, and its watchers still polling
RunningCount(sent, tid) ==
    Cardinality({i \in 1..Len(sent) :
                    sent[i].task = tid /\ sent[i].state = TASK_RUNNING})

RECURSIVE SumOver(_, _)
SumOver(f, S) ==
    IF S = {} THEN 0
    ELSE LET x == CHOOSE y \in S : TRUE IN f[x] + SumOver(f, S \ {x})

WatcherCount(w, tid) == SumOver(w, {tid} \X FullNames)

\* C18 as stated: a LaunchTask for a task-id that is already in the tasks map
\* changes no executor state, pushes no update, sends no status and spawns no
\* watcher, and no task-id is ever sent more than one TASK_RUNNING.
C18_Original ==
    /\ [][\A t \in ExecTasks, d \in Payloads :
            kTasks[t] # NoName /\ LaunchTask(t, d) =>
               UNCHANGED <<registered, kTasks, kPods, updateChan, sentStatus,
                           watchers, monitors>>]_vars
    /\ [](\A t \in ExecTasks : RunningCount(sentStatus, t) <= 1)

\* C18, amended: on a registered executor a LaunchTask for a task-id that is
\* already in the tasks map changes no executor state, pushes no update, sends
\* no status and spawns no watcher; on an executor that is not registered it
\* sends TASK_FAILED and changes nothing else.  A watcher is spawned only by a
\* LaunchTask that records its task-id, one per such launch, and a
\* TASK_RUNNING is sent only by a watcher that retires with it: a task-id gets at
\* most one TASK_RUNNING for each time it was recorded.
C18_DuplicateLaunch ==
    /\ [][\A t \in ExecTasks, d \in Payloads :
            kTasks[t] # NoName /\ LaunchTask(t, d) =>
               /\ UNCHANGED <<registered, kTasks, kPods, updateChan, watchers, monitors>>
               /\ registered => UNCHANGED sentStatus
               /\ ~registered =>
                     sentStatus' = Append(sentStatus,
                        [task |-> t, state |-> TASK_FAILED,
                         message |-> "Executor not registered yet"])]_vars
    /\ [][\A t \in ExecTasks :
            /\ WatcherCount(watchers', t) <= WatcherCount(watchers, t) + 1
            /\ WatcherCount(watchers', t) > WatcherCount(watchers, t) =>
                  /\ registered
                  /\ kTasks[t] = NoName /\ kTasks'[t] # NoName
                  /\ launches' = launches + 1
            /\ RunningCount(sentStatus', t) <= RunningCount(sentStatus, t) + 1
            /\ RunningCount(sentStatus', t) > RunningCount(sentStatus, t) =>
                  WatcherCount(watchers', t) = WatcherCount(watchers, t) - 1]_vars
    /\ [](SumOver([t \in ExecTasks |->
                     RunningCount(sentStatus, t) + WatcherCount(watchers, t)],
                  ExecTasks) <= launches)

\* LaunchTask was delivered twice for one task-id: the first recorded it and its
\* watcher has sent TASK_RUNNING, the second left no trace
C18_Witness ==
    \E t \in ExecTasks :
       /\ registered
       /\ launches = 2
       /\ kTasks[t] # NoName
       /\ Len(updateChan) = 1
       /\ Len(sentStatus) = 1
       /\ RunningCount(sentStatus, t) = 1
       /\ WatcherCount(watchers, t) = 0

\* C19: a LaunchTask delivered while the executor is not registered (none of
\* Registered and Reregistered came yet, or Disconnected came last) sends
\* TASK_FAILED for its task-id and nothing else: no task and no pod is
\* recorded, no update is pushed and no watcher or monitor is started.  The
\* flag itself is false at the start and moves only in a step that leaves the
\* executor's maps, updates, statuses and goroutines alone.
C19_LaunchUnregistered ==
    /\ ~registered
    /\ [][\A t \in ExecTasks, d \in Payloads :
            ~registered /\ LaunchTask(t, d) =>
               /\ sentStatus' = Append(sentStatus,
                     [task |-> t, state |-> TASK_FAILED,
                      message |-> "Executor not registered yet"])
               /\ UNCHANGED <<registered, kTasks, kPods, updateChan, watchers,
                              monitors>>]_vars
    /\ [][registered' # registered =>
            UNCHANGED <<kTasks, kPods, updateChan, sentStatus, watchers, monitors,
                        launches>>]_vars

\* a task was launched on the executor before it registered: TASK_FAILED is the
\* only trace of it
C19_Witness ==
    \E t \in ExecTasks :
       /\ ~registered
       /\ launches = 1
       /\ sentStatus = <<[task |-> t, state |-> TASK_FAILED,
                          message |-> "Executor not registered yet"]>>
       /\ kTasks = [u \in ExecTasks |-> NoName]
       /\ kPods = {}
       /\ updateChan = <<>>
       /\ \A w \in ExecTasks \X FullNames : watchers[w] = 0 /\ monitors[w] = 0

C21_KillUnregistered ==
    /\ [][\A t \in ExecTasks :
            ~registered /\ KillTask(t) => UNCHANGED execVars]_vars
    /\ [][~registered /\ Len(sentStatus') > Len(sentStatus) =>
            \A i \in (Len(sentStatus) + 1)..Len(sentStatus') :
               sentStatus'[i].message # "Task killed"]_vars

\* the executor lost its slave with a task recorded and launched: a KillTask
\* for that task is dropped here, the task and its pod stay, no terminal status
\* was sent
C21_Witness ==
    \E t \in ExecTasks :
       /\ ~registered
       /\ kTasks[t] # NoName
       /\ kTasks[t] \in kPods
       /\ kTasks[t] \in Desired
       /\ ENABLED KillTask(t)
       /\ \A i \in 1..Len(sentStatus) :
             sentStatus[i].task = t => sentStatus[i].state = TASK_RUNNING
       /\ RunningCount(sentStatus, t) = 1

\* C22: every update pushed to the container-runtime channel is a SET that
\* carries the whole bound-pods map of the instant of the push: a step only
\* appends to the channel, what it appends are SETs, each a set of pods between
\* the map before and the map after the step, shrinking from push to push, and
\* the last of them is the map the step leaves; so the update pushed last always
\* equals the bound-pods map.
C22_FullSet ==
    /\ [][/\ Len(updateChan') >= Len(updateChan)
          /\ SubSeq(updateChan', 1, Len(updateChan)) = updateChan
          /\ kPods' # kPods => Len(updateChan') > Len(updateChan)
          /\ Len(updateChan') > Len(updateChan) =>
                /\ updateChan'[Len(updateChan')].pods = kPods'
                /\ \A i \in (Len(updateChan) + 1)..Len(updateChan') :
                      /\ updateChan'[i].op = "SET"
                      /\ \/ updateChan'[i].pods = kPods \cup kPods'
                         \/ /\ kPods' \subseteq updateChan'[i].pods
                            /\ updateChan'[i].pods \subseteq kPods
                            /\ updateChan'[i].pods # kPods
                      /\ i > Len(updateChan) + 1 =>
                            /\ updateChan'[i].pods \subseteq updateChan'[i - 1].pods
                            /\ updateChan'[i].pods # updateChan'[i - 1].pods]_vars
    /\ [](\A i \in 1..Len(updateChan) : updateChan[i].op = "SET")
    /\ [](Desired = kPods)

\* LaunchTask, killPodForTask and reportLostTask have each pushed: two launches
\* grew the set to two pods, a lost task and a killed task emptied it again
C22_Witness ==
    /\ Len(updateChan) = 4
    /\ Cardinality(updateChan[1].pods) = 1
    /\ Cardinality(updateChan[2].pods) = 2
    /\ Cardinality(updateChan[3].pods) = 1
    /\ updateChan[4].pods = {}
    /\ kPods = {}
    /\ \E i \in 1..Len(sentStatus) : sentStatus[i].state = TASK_LOST
    /\ \E i \in 1..Len(sentStatus) :
          sentStatus[i].state = TASK_KILLED /\ sentStatus[i].message = "Task killed"

\* the statuses a step has added to those sent before
NewStatuses(old, new) == {new[i] : i \in (Len(old) + 1)..Len(new)}

\* C23: when Shutdown returns the tasks map is empty, and each task-id that
\* was recorded when it started has been sent one TASK_KILLED with the reason
\* "Executor shutdown" and has its pod out of the bound-pods map and out of
\* the set pushed last, whatever the registered flag is; nothing else is sent.
C23_Shutdown ==
    /\ [][Shutdown =>
            LET recorded == {t \in ExecTasks : kTasks[t] # NoName}
            IN  /\ kTasks' = [t \in ExecTasks |-> NoName]
                /\ Len(sentStatus') = Len(sentStatus) + Cardinality(recorded)
                /\ SubSeq(sentStatus', 1, Len(sentStatus)) = sentStatus
                /\ NewStatuses(sentStatus, sentStatus') =
                      {[task |-> t, state |-> TASK_KILLED,
                        message |-> "Executor shutdown"] : t \in recorded}
                /\ \A t \in recorded :
                      /\ kTasks[t] \notin kPods'
                      /\ updateChan' # <<>>
                      /\ kTasks[t] \notin updateChan'[Len(updateChan')].pods
                /\ registered' = registered]_vars
    /\ [][(\E s \in NewStatuses(sentStatus, sentStatus') :
              s.message = "Executor shutdown") =>
            kTasks' = [t \in ExecTasks |-> NoName]]_vars

\* Shutdown came to a disconnected executor that had two tasks recorded: both
\* were sent TASK_KILLED and nothing is left in the maps
C23_Witness ==
    /\ ~registered
    /\ kTasks = [t \in ExecTasks |-> NoName]
    /\ kPods = {}
    /\ Desired = {}
    /\ Len(updateChan) >= 3
    /\ \A t \in ExecTasks :
          \E i \in 1..Len(sentStatus) :
             sentStatus[i] = [task |-> t, state |-> TASK_KILLED,
                              message |-> "Executor shutdown"]

\* the launch-failed reports sent for a task-id
LaunchFailedCount(sent, tid) ==
    Cardinality({i \in 1..Len(sent) :
                    sent[i] = [task |-> tid, state |-> TASK_LOST,
                               message |-> "Task lost: launch failed"]})

\* C24: a launch watcher that never sees the pod's "net" container running
\* within the grace period ends, and ends by reporting the launch lost: if its
\* task-id is still recorded then, TASK_LOST with the reason "Task lost: launch
\* failed" is sent, the task entry is removed and its pod is out of the
\* bound-pods map; if the task-id is gone, nothing is sent or changed.  No
\* TASK_RUNNING goes out and no monitor starts in that step, and every launch
\* ends in at most one of TASK_RUNNING and the launch-failed TASK_LOST.
C24_LaunchExpired ==
    /\ [][\A t \in ExecTasks, n \in FullNames :
            WatcherExpired(t, n) =>
               /\ watchers' = [watchers EXCEPT ![<<t, n>>] = @ - 1]
               /\ monitors' = monitors
               /\ kTasks[t] # NoName =>
                     /\ sentStatus' = Append(sentStatus,
                           [task |-> t, state |-> TASK_LOST,
                            message |-> "Task lost: launch failed"])
                     /\ kTasks' = [kTasks EXCEPT ![t] = NoName]
                     /\ kPods' = kPods \ {kTasks[t]}
                     /\ Desired' = kPods'
               /\ kTasks[t] = NoName =>
                     UNCHANGED <<kTasks, kPods, updateChan, sentStatus>>]_vars
    /\ [][\A t \in ExecTasks :
            LaunchFailedCount(sentStatus', t) > LaunchFailedCount(sentStatus, t) =>
               /\ WatcherCount(watchers', t) = WatcherCount(watchers, t) - 1
               /\ RunningCount(sentStatus', t) = RunningCount(sentStatus, t)
               /\ kTasks[t] # NoName /\ kTasks'[t] = NoName]_vars
    /\ [](SumOver([t \in ExecTasks |->
                     RunningCount(sentStatus, t) + LaunchFailedCount(sentStatus, t)
                        + WatcherCount(watchers, t)],
                  ExecTasks) <= launches)
    /\ \A t \in ExecTasks, n \in FullNames :
          (watchers[<<t, n>>] > 0) ~> (watchers[<<t, n>>] = 0)

\* the pod of a launched task never came up: the watcher has gone, the task was
\* reported lost and nothing else was ever sent
C24_Witness ==
    \E t \in ExecTasks :
       /\ launches = 1
       /\ kTasks[t] = NoName
       /\ kPods = {}
       /\ Len(updateChan) = 2
       /\ sentStatus = <<[task |-> t, state |-> TASK_LOST,
                          message |-> "Task lost: launch failed"]>>
       /\ \A n \in FullNames : kubelet[n] # "running"
       /\ WatcherCount(watchers, t) = 0
       /\ WatcherCount(monitors, t) = 0

\* C25: a poll of the lost-pod monitor of a task-id that is still recorded
\* finds the pod and goes on, sending and changing nothing, or finds it absent,
\* sends one TASK_LOST, removes the task with its pod and stops; a poll for a
\* task-id that is no longer recorded stops the monitor and sends nothing.
C25_MonitorPoll ==
    /\ [](\A t \in ExecTasks :
            kTasks[t] # NoName =>
               checkForLostPodTask(ExecState, t, TRUE) = <<FALSE, ExecState>>)
    /\ [][\A t \in ExecTasks, n \in FullNames :
            MonitorPoll(t, n) =>
               /\ ~(kTasks[t] # NoName /\ kubelet[n] # "absent")
               /\ monitors' = [monitors EXCEPT ![<<t, n>>] = @ - 1]
               /\ watchers' = watchers
               /\ kTasks[t] # NoName =>
                     /\ sentStatus' = Append(sentStatus,
                           [task |-> t, state |-> TASK_LOST,
                            message |-> "Task lost: container disappeared"])
                     /\ kTasks' = [kTasks EXCEPT ![t] = NoName]
                     /\ kPods' = kPods \ {kTasks[t]}
               /\ kTasks[t] = NoName =>
                     UNCHANGED <<kTasks, kPods, updateChan, sentStatus>>]_vars
    /\ [][\A t \in ExecTasks :
            [task |-> t, state |-> TASK_LOST,
             message |-> "Task lost: container disappeared"]
               \in NewStatuses(sentStatus, sentStatus') =>
               /\ kTasks[t] # NoName /\ kTasks'[t] = NoName
               /\ \E n \in FullNames :
                     /\ monitors[<<t, n>>] > 0
                     /\ kubelet[n] = "absent"
                     /\ monitors' = [monitors EXCEPT ![<<t, n>>] = @ - 1]]_vars

\* a running pod went away: the monitor reported the task lost and stopped
C25_Witness ==
    \E t \in ExecTasks :
       /\ launches = 1
       /\ kTasks[t] = NoName
       /\ kPods = {}
       /\ sentStatus = <<[task |-> t, state |-> TASK_RUNNING, message |-> "Pod is running"],
                         [task |-> t, state |-> TASK_LOST,
                          message |-> "Task lost: container disappeared"]>>
       /\ WatcherCount(monitors, t) = 0
       /\ WatcherCount(watchers, t) = 0

\* ---------------------------------------------------------- mesos client claims
\* C26 as stated: httpDo returns only after the handler goroutine has finished
\* and left nothing on the channel; when the context was done before the
\* request completed, the request was cancelled and httpDo returns the
\* context's error, and otherwise it returns the handler's error.
C26_Original ==
    caller.pc = "ret" =>
       /\ handler.pc = "done"
       /\ ch = <<>>
       /\ handler.ctxFirst =>
             /\ handler.res = "cancelled"
             /\ caller.ret = ctx
       /\ ~handler.ctxFirst => caller.ret = handler.err

\* C26, amended: httpDo returns only after the handler goroutine has finished
\* and left nothing on the channel.  What it returns follows the branch its
\* select took: on the cancellation branch, taken only when the context is
\* done, it cancels the request if that is still in flight, waits for the
\* handler and returns the context's error; on the result branch it returns
\* the handler's error.  A select made with the context done and no result yet
\* takes the cancellation branch; with both at hand it may take either.
C26_HttpDo ==
    /\ [](caller.pc = "ret" =>
            /\ handler.pc = "done"
            /\ ch = <<>>
            /\ caller.branch = "done" =>
                  /\ ctx # ""
                  /\ caller.ret = ctx
            /\ caller.branch = "ch" => caller.ret = handler.err)
    /\ [](caller.pc = "wait" => ctx # "" /\ handler.req # "inflight")
    /\ [][caller.pc = "select" /\ caller'.pc # "select" =>
            /\ ch = <<>> => caller'.pc = "wait" /\ ctx # ""
            /\ ctx = "" => caller'.pc = "ret" /\ caller'.branch = "ch"
            /\ handler.req = "inflight" /\ caller'.pc = "wait" =>
                  handler'.req = "cancelled"]_vars
    /\ [][handler.pc = "do" /\ handler.req = "cancelled" /\ handler'.pc # "do" =>
            handler'.res = "cancelled"]_vars

\* the context was cancelled with the request in flight: httpDo cancelled the
\* request, waited for the handler and returned the context's error
C26_Witness ==
    /\ caller.pc = "ret"
    /\ caller.branch = "done"
    /\ caller.ret = "canceled"
    /\ handler.pc = "done"
    /\ handler.res = "cancelled"
    /\ handler.err = "requestCanceled"
    /\ ch = <<>>

\* ------------------------------------------------------------- locking claims
\* the goroutine's position lies inside the critical section of Schedule or
\* Bind, of deleteOne, of handleSchedulingError
InWriteSection ==
    \/ plugin.op = "Schedule" /\ plugin.pc \in {"body", "ret"}
    \/ plugin.op = "Bind" /\ plugin.pc # "call"

InDeleteSection == deleter.pc \in {"body", "ret"}

InReadSection ==
    plugin.op = "Error" /\ plugin.pc \in {"body", "ret"} /\ plugin.err # noSuchPodErr

\* C27: the critical sections of Schedule, Bind and deleteOne exclude each
\* other and the read-locked section of handleSchedulingError: each is in its
\* section exactly while it holds the lock in its mode, a writer never holds
\* it together with a reader or another writer, and the pod-to-task map and
\* the tasks (launched flag, offer, membership) change only by a step of the
\* writer that holds the lock, or with the lock free, never under a reader.
C27_Exclusion ==
    /\ [](/\ InWriteSection <=> lock.w = "plugin"
          /\ InDeleteSection <=> lock.w = "deleter"
          /\ InReadSection <=> "plugin" \in lock.r
          /\ lock.w # "none" => lock.r = {}
          /\ ~(InWriteSection /\ InDeleteSection)
          /\ ~(InReadSection /\ InDeleteSection))
    /\ [][tasks' # tasks \/ podToTask' # podToTask =>
            /\ lock.r = {}
            /\ lock.w = "plugin" => plugin' # plugin /\ deleter' = deleter
            /\ lock.w = "deleter" => deleter' # deleter /\ plugin' = plugin]_vars
    /\ [][lock'.w # lock.w =>
            \/ lock.w = "none" /\ lock.r = {}
            \/ lock'.w = "none"]_vars

\* deleteOne is inside its section and changing the registries while the
\* scheduling loop waits at the entry of Bind for the lock
C27_Witness ==
    /\ InDeleteSection
    /\ deleter.pc = "ret"
    /\ lock.w = "deleter"
    /\ plugin.op = "Bind" /\ plugin.pc = "call"
    /\ podToTask[plugin.pod] = NoTask
    /\ ~ENABLED BindLock

\* --------------------------------------------------------------- offer claims
\* the offer attached to a registered task
AttachedOffer(tks, t) == IF tks[t].state = "none" THEN NoOffer ELSE tks[t].offer

\* C28: no attached offer is lost and none is overwritten.  An offer that is
\* acquired is attached to exactly one registered task; the offer of a launched
\* task has left the registry; whenever a task's attached offer is replaced,
\* detached or dropped with the task, it was consumed by the launch or is no
\* longer acquired after the step; and Schedule attaches an offer only to a task
\* that holds none.
C28_OfferAttached ==
    /\ [](\A o \in OfferIds :
            /\ offers[o].acquired =>
                  \E t \in TaskIds : AttachedOffer(tasks, t) = o
            /\ \A t, u \in TaskIds :
                  AttachedOffer(tasks, t) = o /\ AttachedOffer(tasks, u) = o
                  /\ ~tasks[t].launched /\ ~tasks[u].launched => t = u)
    /\ [](\A t \in TaskIds :
            tasks[t].launched /\ AttachedOffer(tasks, t) # NoOffer
            /\ ~(plugin.op = "Bind" /\ plugin.tid = t /\ plugin.pc = "stamp") =>
               offers[AttachedOffer(tasks, t)].st = "gone")
    /\ [][\A t \in TaskIds :
            LET o == AttachedOffer(tasks, t)
            IN  o # NoOffer /\ AttachedOffer(tasks', t) # o =>
                   \/ tasks[t].launched /\ offers[o].st = "gone"
                   \/ ~offers'[o].acquired]_vars
    /\ [][\A t \in TaskIds :
            /\ plugin.op = "Schedule" /\ plugin'.op = "Schedule"
            /\ AttachedOffer(tasks', t) # NoOffer
            /\ AttachedOffer(tasks', t) # AttachedOffer(tasks, t)
            => AttachedOffer(tasks, t) = NoOffer]_vars

\* Schedule has just attached an acquired offer to its task while another offer,
\* used by an earlier launch attempt that failed, is back in the registry
\* unacquired
C28_Witness ==
    \E t \in TaskIds, o \in OfferIds :
       /\ ScheduleAtReturn
       /\ plugin.tid = t
       /\ AttachedOffer(tasks, t) = o
       /\ offers[o].acquired
       /\ \E q \in OfferIds \ {o} :
             /\ offers[q].st = "live" /\ ~offers[q].acquired
             /\ launchIssued[q] > 0

\* -------------------------------------------------------------- queuer claims
\* a loop is inside the wait it started after Await returned nothing
InCondWait(c) == loops[c] \in {"select", "drain"}

\* C29: neither queuer loop blocks forever.  A loop that runs holds the queuer
\* mutex and the other does not; every condition-variable wait of either loop
\* ends, by a broadcast or by the timeout, with the loop back at Await; and a
\* pod whose deadline is reached does not stay in the delay queue, yield pops it.
C29_Original ==
    /\ [](\A c \in Conds : loops[c] = "await" => queuerLock = c)
    /\ \A c \in Conds : InCondWait(c) ~> loops[c] = "await"
    /\ (delayHead = "ready") ~> (delayHead # "ready")

\* yield has taken the timeout and broadcast before its goroutine entered Wait:
\* the goroutine now waits for a broadcast, yield for the goroutine, and the pod
\* in the delay queue is due
C29_Witness ==
    /\ loops["unscheduledCond"] = "drain"
    /\ waiters["unscheduledCond"] = "waiting"
    /\ delayHead = "ready"

\* deleter.Run takes the oldest entry off the updates channel in this step
DeleterReceives == updates # <<>> /\ updates' = Tail(updates)

\* C30 as stated: a DELETE entry starts deleteOne and signals nothing, and an
\* entry of any other kind is forwarded by updatesAvailable, whose broadcast
\* wakes the goroutine waiting on deltaCond
C30_Original ==
    [][DeleterReceives =>
          LET kind == Head(updates)
          IN  /\ kind = "DELETE" =>
                    /\ deleter'.pc = "body"
                    /\ lastEntry'.did = "deleteOne"
                    /\ waiters' = waiters
              /\ kind # "DELETE" =>
                    /\ lastEntry'.did = "updatesAvailable"
                    /\ waiters["deltaCond"] = "waiting" =>
                          waiters'["deltaCond"] = "woken"]_vars

\* C30: for every entry the deleter receives, a DELETE entry starts deleteOne
\* under the scheduler lock and signals nothing; an ADD or UPDATE entry is
\* forwarded by updatesAvailable, whose broadcast wakes the goroutine waiting on
\* deltaCond, and deleteOne is not called; a POP entry is dropped, with neither
\* deleteOne nor a broadcast.
C30_DeleterRun ==
    [][DeleterReceives =>
          LET kind == Head(updates)
          IN  /\ lastEntry'.kind = kind
              /\ kind = "DELETE" =>
                    /\ deleter'.pc = "body"
                    /\ lock'.w = "deleter"
                    /\ lastEntry'.did = "deleteOne"
                    /\ waiters' = waiters
              /\ kind \in {"ADD", "UPDATE"} =>
                    /\ lastEntry'.did = "updatesAvailable"
                    /\ deleter' = deleter
                    /\ waiters["deltaCond"] = "waiting" =>
                          waiters'["deltaCond"] = "woken"
                    /\ waiters'["unscheduledCond"] = waiters["unscheduledCond"]
              /\ kind = "POP" =>
                    /\ lastEntry'.did = "none"
                    /\ deleter' = deleter
                    /\ waiters' = waiters]_vars

\* the deleter has received a POP entry while the enqueue loop's goroutine was
\* waiting on deltaCond, and the goroutine is still waiting
C30_Witness ==
    /\ lastEntry.kind = "POP"
    /\ lastEntry.did = "none"
    /\ waiters["deltaCond"] = "waiting"

\* ---------------------------------------------------- executor interleavings
\* a terminal status (TASK_KILLED or TASK_LOST) was sent for the task-id
TerminalSent(sent, tid) ==
    \E i \in 1..Len(sent) :
       sent[i].task = tid /\ sent[i].state \in {TASK_KILLED, TASK_LOST}

\* C31 as stated: whatever the interleaving of the launch watcher with KillTask,
\* Shutdown and lost-task reporting, a step that sends TASK_RUNNING for a
\* task-id, or that starts a lost-pod monitor for it, is taken only while the
\* task-id is in the tasks map and no terminal status has been sent for it.
C31_Original ==
    [][\A t \in ExecTasks :
          \/ TaskStatus(t, TASK_RUNNING, "Pod is running")
                \in NewStatuses(sentStatus, sentStatus')
          \/ \E n \in FullNames : monitors'[<<t, n>>] > monitors[<<t, n>>]
          => /\ kTasks[t] # NoName
             /\ ~TerminalSent(sentStatus, t)]_vars

\* the task-id was launched once and killed, and its watcher has since seen the
\* pod still running: TASK_RUNNING follows TASK_KILLED, and a monitor polls for
\* a task-id that is not in the tasks map
C31_Witness ==
    \E t \in ExecTasks, n \in FullNames :
       /\ launches = 1
       /\ kTasks[t] = NoName
       /\ monitors[<<t, n>>] > 0
       /\ \E i, j \in 1..Len(sentStatus) :
             /\ i < j
             /\ sentStatus[i] = TaskStatus(t, TASK_KILLED, "Task killed")
             /\ sentStatus[j].task = t
             /\ sentStatus[j].state = TASK_RUNNING

====
